---- MODULE Spec2Model ----
(***************************************************************************)
(* A model of the scholarship tracker's BugX v1.4 toolkit and database     *)
(* bootstrap:                                                              *)
(*   - lib/db/init.ts      ensureDatabaseInitialized (single-flight guard)  *)
(*   - lib/bugx/v1.4/integration.ts  BugXIntegrationSystem                  *)
(*       runCompleteWorkflow, calculateQualityScore, shareWithTeam,         *)
(*       recordTeamKnowledgeFeedback, configure                             *)
(*   - lib/bugx/v1.4/index.ts        BugXv14.shareWithTeam, configure       *)
(*   - lib/bugx/behavioral-parity-tests.ts  BehavioralParityTester          *)
(*   - lib/db/queries.ts   getUser                                          *)
(*   - app/(login)/actions.ts  signIn, signUp, signOut, deleteAccount, and  *)
(*       the database setup endpoint                                        *)
(* Each part has its own specification over the shared variables; the      *)
(* variables a specification does not use stay at their initial values.    *)
(***************************************************************************)
EXTENDS Integers, Sequences, FiniteSets, TLC

VARIABLES
    \* ---- lib/db/init.ts ----
    isInitialized,          \* module-level flag
    initializationPromise,  \* NoPromise (null) or the id of the attempt's promise
    attempt,                \* attempt id -> state of the async IIFE
    nAttempts,              \* attempts started so far
    caller,                 \* caller -> position in ensureDatabaseInitialized
    \* ---- integration.ts: calculateQualityScore ----
    qsFactors,              \* the `factors` argument
    qsScore,                \* the value returned for qsFactors, or NotComputed
    qsPrev,                 \* the calls before the last one: <<[factors, score]>>
    \* ---- integration.ts: team knowledge ----
    teamKnowledge,          \* BugXIntegrationSystem.teamKnowledge, in push order
    tkCall,                 \* the latest call on the team knowledge and the id passed
    \* ---- integration.ts: runCompleteWorkflow ----
    config,                 \* BugXIntegrationSystem.config
    run,                    \* the call of runCompleteWorkflow in progress: its
                            \* position, locals, calls made and result
    facade,                 \* what BugXv14.configure returned last, and the
                            \* contents of the exported DEFAULT_CONFIG object
    workflows,              \* caller -> the call of runCompleteWorkflow it has
                            \* in progress, when several callers run workflows
    \* ---- lib/db/queries.ts: getUser ----
    gu,                     \* caller -> the call of getUser it has in progress
    \* ---- app/(login)/actions.ts: signIn ----
    fallbackMode,           \* FALLBACK_MODE_ENABLED, fixed when the module loads
    si,                     \* the call of signIn in progress and its outcome
    session,                \* the user id in the session cookie, or NoSession
    activityLogs,           \* rows of activity_logs, in insertion order
    \* ---- database setup endpoint (POST / GET) ----
    database,               \* the tables, indexes and users rows of the database
    setup,                  \* the request in progress, the responses so far
    \* ---- lib/bugx/behavioral-parity-tests.ts ----
    parity,                 \* the latest call on BehavioralParityTester and its result
    \* ---- app/(login)/actions.ts: signUp, signOut, deleteAccount ----
    users,                  \* the rows of the users table
    ac                      \* the call of signUp, signOut, deleteAccount or
                            \* getUser in progress and its outcome

dbVars == <<isInitialized, initializationPromise, attempt, nAttempts, caller>>
qsVars == <<qsFactors, qsScore, qsPrev>>
tkVars == <<teamKnowledge, tkCall>>
wfVars == <<config, run, facade, workflows>>
guVars == <<gu>>
siVars == <<fallbackMode, si, session, activityLogs>>
seVars == <<database, setup>>
ptVars == <<parity>>
acVars == <<users, ac>>

\* the variables of the application code around the toolkit
appVars == <<guVars, siVars, seVars, ptVars, acVars>>

nonDbVars == <<qsVars, tkVars, wfVars, appVars>>
nonQsVars == <<dbVars, tkVars, wfVars, appVars>>
nonTkVars == <<dbVars, qsVars, wfVars, appVars>>
nonWfVars == <<dbVars, qsVars, tkCall, facade, workflows, appVars>>

vars == <<isInitialized, initializationPromise, attempt, nAttempts, caller,
          qsFactors, qsScore, qsPrev, teamKnowledge, tkCall, config, run,
          facade, workflows, gu,
          fallbackMode, si, session, activityLogs, database, setup, parity,
          users, ac>>

(***************************************************************************)
(* Bounds of the model.                                                    *)
(***************************************************************************)
\* initialization attempts a behaviour may start
MaxAttempts == 3
\* concurrent callers of ensureDatabaseInitialized
NumCallers == 3
\* prevention measures the implementation engine may return
MaxMeasures == 6
\* largest pattern-match confidence (PatternMatch.confidence is 0-100)
MaxConfidence == 100
\* team-knowledge entries a behaviour may push
MaxEntries == 1
\* feedback calls a behaviour may make (17 unhelpful ones bring 85 down to 0)
MaxFeedback == 18
\* comments a behaviour may attach to feedback
MaxComments == 1
\* prevention measures the implementation engine returns within a workflow
MaxRunMeasures == 1
\* rows a behaviour may insert into activity_logs
MaxActivityLogs == 2
\* callers that have a workflow in progress at the same time
NumWfCallers == 2
\* entries on the team knowledge list beyond which no caller starts a workflow
MaxShared == 2
\* concurrent callers of getUser
NumGuCallers == 2
\* POST requests a behaviour may send to the setup endpoint
MaxPosts == 3

(***************************************************************************)
(* lib/db/init.ts: ensureDatabaseInitialized                                *)
(***************************************************************************)
Callers == 1..NumCallers
Attempts == 1..MaxAttempts
NoPromise == 0

\* an attempt (the async IIFE) is in flight from the call of initializeDatabase
\* until it either sets isInitialized or runs its catch block
InFlight == {a \in Attempts : attempt[a] \in {"initializing", "seeding"}}

DbInit ==
    /\ isInitialized = FALSE
    /\ initializationPromise = NoPromise
    /\ attempt = [a \in Attempts |-> "unused"]
    /\ nAttempts = 0
    /\ caller = [c \in Callers |-> [pc |-> "idle", awaits |-> NoPromise, role |-> "none"]]

\* ensureDatabaseInitialized without the check of line 94: every caller that
\* finds the flag unset starts an attempt of its own.
ensureDatabaseInitialized_NoGuard(c) ==
    /\ UNCHANGED nonDbVars
    /\ caller[c].pc \in {"idle", "returned", "threw"}
    /\ \/ /\ isInitialized
          /\ caller' = [caller EXCEPT ![c] = [pc |-> "returned", awaits |-> NoPromise, role |-> "fast"]]
          /\ UNCHANGED <<isInitialized, initializationPromise, attempt, nAttempts>>
       \/ /\ ~isInitialized
          /\ nAttempts < MaxAttempts
          /\ nAttempts' = nAttempts + 1
          /\ attempt' = [attempt EXCEPT ![nAttempts + 1] = "initializing"]
          /\ initializationPromise' = nAttempts + 1
          /\ caller' = [caller EXCEPT ![c] = [pc |-> "awaiting", awaits |-> nAttempts + 1, role |-> "initiator"]]
          /\ UNCHANGED isInitialized

\* Lines 87-115 up to the first await: JavaScript runs them without
\* interruption. The IIFE runs synchronously up to `await initializeDatabase()`,
\* so the attempt is already initializing when the promise is stored.
ensureDatabaseInitialized(c) ==
    /\ UNCHANGED nonDbVars
    /\ caller[c].pc \in {"idle", "returned", "threw"}
    /\ \/ /\ isInitialized
          /\ caller' = [caller EXCEPT ![c] = [pc |-> "returned", awaits |-> NoPromise, role |-> "fast"]]
          /\ UNCHANGED <<isInitialized, initializationPromise, attempt, nAttempts>>
       \/ /\ ~isInitialized
          /\ initializationPromise # NoPromise
          /\ caller' = [caller EXCEPT ![c] = [pc |-> "awaiting", awaits |-> initializationPromise, role |-> "waiter"]]
          /\ UNCHANGED <<isInitialized, initializationPromise, attempt, nAttempts>>
       \/ /\ ~isInitialized
          /\ initializationPromise = NoPromise
          /\ nAttempts < MaxAttempts
          /\ nAttempts' = nAttempts + 1
          /\ attempt' = [attempt EXCEPT ![nAttempts + 1] = "initializing"]
          /\ initializationPromise' = nAttempts + 1
          /\ caller' = [caller EXCEPT ![c] = [pc |-> "awaiting", awaits |-> nAttempts + 1, role |-> "initiator"]]
          /\ UNCHANGED isInitialized

\* The catch block without line 110: the rejected promise stays in the guard.
AttemptFails_NoReset(a) ==
    /\ UNCHANGED nonDbVars
    /\ attempt' = [attempt EXCEPT ![a] = "rejected"]
    /\ UNCHANGED <<isInitialized, initializationPromise, nAttempts, caller>>

\* Lines 107-111: the catch block of the IIFE.
AttemptFails(a) ==
    /\ UNCHANGED nonDbVars
    /\ initializationPromise' = NoPromise
    /\ attempt' = [attempt EXCEPT ![a] = "rejected"]
    /\ UNCHANGED <<isInitialized, nAttempts, caller>>

\* Line 105 moved up between lines 103 and 104: the flag is set before
\* seedDatabase has run.
initializeDatabaseSettles_SetsFlag(a) ==
    /\ attempt[a] = "initializing"
    /\ \/ /\ attempt' = [attempt EXCEPT ![a] = "seeding"]
          /\ isInitialized' = TRUE
          /\ UNCHANGED <<initializationPromise, nAttempts, caller>>
          /\ UNCHANGED nonDbVars
       \/ AttemptFails(a)

\* Line 103: the promise of initializeDatabase settles; on success the IIFE
\* goes on to call seedDatabase (line 104).
initializeDatabaseSettles(a) ==
    /\ attempt[a] = "initializing"
    /\ \/ /\ attempt' = [attempt EXCEPT ![a] = "seeding"]
          /\ UNCHANGED <<isInitialized, initializationPromise, nAttempts, caller>>
          /\ UNCHANGED nonDbVars
       \/ AttemptFails(a)

\* Lines 104-106 without line 105: success leaves the flag unset.
seedDatabaseSettles_FlagUnset(a) ==
    /\ attempt[a] = "seeding"
    /\ \/ /\ attempt' = [attempt EXCEPT ![a] = "fulfilled"]
          /\ UNCHANGED <<isInitialized, initializationPromise, nAttempts, caller>>
          /\ UNCHANGED nonDbVars
       \/ AttemptFails(a)

\* Lines 104-106: the promise of seedDatabase settles.
seedDatabaseSettles(a) ==
    /\ attempt[a] = "seeding"
    /\ \/ /\ isInitialized' = TRUE
          /\ attempt' = [attempt EXCEPT ![a] = "fulfilled"]
          /\ UNCHANGED <<initializationPromise, nAttempts, caller>>
          /\ UNCHANGED nonDbVars
       \/ AttemptFails(a)

\* The awaits of lines 95 and 115 wrapped in a try with an empty catch: a
\* rejection of the attempt's promise is swallowed and the caller returns.
AwaitResumes_Swallows(c) ==
    /\ UNCHANGED nonDbVars
    /\ caller[c].pc = "awaiting"
    /\ attempt[caller[c].awaits] \in {"fulfilled", "rejected"}
    /\ caller' = [caller EXCEPT ![c].pc = "returned"]
    /\ UNCHANGED <<isInitialized, initializationPromise, attempt, nAttempts>>

\* The awaits of lines 95 and 115 raced against a timer: a caller gives up
\* on an attempt that is still in flight.
AwaitResumes_Timeout(c) ==
    /\ UNCHANGED nonDbVars
    /\ caller[c].pc = "awaiting"
    /\ \/ /\ attempt[caller[c].awaits] = "fulfilled"
          /\ caller' = [caller EXCEPT ![c].pc = "returned"]
       \/ /\ attempt[caller[c].awaits] # "fulfilled"
          /\ caller' = [caller EXCEPT ![c].pc = "threw"]
    /\ UNCHANGED <<isInitialized, initializationPromise, attempt, nAttempts>>

\* Lines 95-96 and 115: a caller's await resumes once the attempt's promise
\* has settled; a rejection is rethrown to the caller.
AwaitResumes(c) ==
    /\ UNCHANGED nonDbVars
    /\ caller[c].pc = "awaiting"
    /\ \/ /\ attempt[caller[c].awaits] = "fulfilled"
          /\ caller' = [caller EXCEPT ![c].pc = "returned"]
       \/ /\ attempt[caller[c].awaits] = "rejected"
          /\ caller' = [caller EXCEPT ![c].pc = "threw"]
    /\ UNCHANGED <<isInitialized, initializationPromise, attempt, nAttempts>>

NextDb ==
    \/ \E c \in Callers : ensureDatabaseInitialized(c)
    \/ \E a \in Attempts : initializeDatabaseSettles(a)
    \/ \E a \in Attempts : seedDatabaseSettles(a)
    \/ \E c \in Callers : AwaitResumes(c)

\* the variables of calculateQualityScore while another part runs
QsIdle ==
    /\ qsFactors = [appliedTemplate |-> FALSE, preventionMeasures |-> 0,
                    patternMatchConfidence |-> 0, contextComplexity |-> "simple"]
    /\ qsScore = -1
    /\ qsPrev = <<>>

(***************************************************************************)
(* integration.ts: configuration (lines 13-25, 63-83)                       *)
(* timeTarget and times spent are in tenths of a minute.                    *)
(***************************************************************************)
DefaultTimeTarget == 45

DEFAULT_CONFIG ==
    [timeTarget |-> DefaultTimeTarget,
     aiAssisted |-> TRUE,
     metricsEnabled |-> TRUE,
     preventionRequired |-> TRUE,
     documentationRequired |-> TRUE,
     patternRecognitionEnabled |-> TRUE,
     teamIntegration |-> [notifyOnCritical |-> TRUE, sharePatterns |-> TRUE,
                          requireReviews |-> FALSE]]

\* { ...base, ...patch }: a shallow merge; a Partial<BugXWorkflowConfig> is a
\* function on some of the keys
Merge(base, patch) ==
    [k \in DOMAIN base |-> IF k \in DOMAIN patch THEN patch[k] ELSE base[k]]

Undefined == "undefined"
NoResult == [success |-> "none"]

\* no call of runCompleteWorkflow is in progress
IdleRun ==
    [pc |-> "idle",
     workflowConfig |-> DEFAULT_CONFIG,
     sessionId |-> <<"session", 0>>,
     message |-> {},
     patternMatches |-> <<>>,
     antiPatterns |-> <<>>,
     complexity |-> Undefined,
     errorType |-> Undefined,
     appliedTemplate |-> Undefined,
     preventionMeasures |-> <<>>,
     qualityScore |-> 0,
     documentationCreated |-> FALSE,
     timeSpent |-> 0,
     calls |-> <<>>,
     result |-> NoResult]

\* index.ts lines 268-276: no call of BugXv14.configure has returned; the
\* exported object holds the literal of lines 63-75
NoFacadeCall ==
    [returned |-> [configured |-> FALSE, config |-> DEFAULT_CONFIG],
     DEFAULT_CONFIG |-> DEFAULT_CONFIG]

WfCallers == 1..NumWfCallers

\* a caller with no call of runCompleteWorkflow in progress
IdleCall == [pc |-> "idle", workflowConfig |-> DEFAULT_CONFIG, pushed |-> 0]

\* lines 78-79: `config` starts as the exported DEFAULT_CONFIG object
WfInit ==
    /\ config = DEFAULT_CONFIG
    /\ run = IdleRun
    /\ facade = NoFacadeCall
    /\ workflows = [c \in WfCallers |-> IdleCall]

\* line 79: the team knowledge starts empty
TkInit ==
    /\ teamKnowledge = <<>>
    /\ tkCall = [op |-> "none"]

\* no call of getUser is in progress
GuIdle == gu = [c \in Callers |-> [pc |-> "idle"]]

NoSession == 0
IdleSignIn == [pc |-> "idle"]

\* no call of signIn is in progress
SiIdle ==
    /\ fallbackMode = FALSE
    /\ si = IdleSignIn
    /\ session = NoSession
    /\ activityLogs = <<>>

\* a database on which nothing has been set up
EmptyDatabase == [tables |-> {}, indexes |-> {}, users |-> <<>>]
IdleSetup == [pc |-> "idle", statement |-> 1, responses |-> <<>>]

\* no request to the setup endpoint is in progress
SeIdle ==
    /\ database = EmptyDatabase
    /\ setup = IdleSetup

\* lib/auth/session: the hash of a password, and its check
hashPassword(password) == <<"hash", password>>
comparePasswords(password, passwordHash) == passwordHash = hashPassword(password)

\* users.deletedAt of a row that is not soft-deleted (SQL NULL)
NotDeleted == 0

\* the rows of the users table
UserRows ==
    {[id |-> 1, email |-> "amy@example.com", passwordHash |-> hashPassword("password1"),
      deletedAt |-> NotDeleted],
     [id |-> 2, email |-> "bob@example.com", passwordHash |-> hashPassword("password1"),
      deletedAt |-> 5]}

\* no call of signUp, signOut, deleteAccount or getUser is in progress
IdleAccount == [pc |-> "idle", op |-> "none"]

AcIdle ==
    /\ users = UserRows
    /\ ac = IdleAccount

NoCall == [method |-> "none", results |-> <<>>]

PtIdle == parity = NoCall

\* the application code while a part of the toolkit runs
AppIdle == GuIdle /\ SiIdle /\ SeIdle /\ PtIdle /\ AcIdle

InitDb == DbInit /\ QsIdle /\ TkInit /\ WfInit /\ AppIdle

SpecDb == InitDb /\ [][NextDb]_vars

(***************************************************************************)
(* Claims about ensureDatabaseInitialized (checked under SpecDb).           *)
(***************************************************************************)
\* a step in which caller c enters ensureDatabaseInitialized
CallStep(c) == caller[c].pc # "awaiting" /\ caller'[c] # caller[c]

\* C3: single-flight initialization. At most one attempt (initializeDatabase
\* then seedDatabase) is in flight at any time, it is the one whose promise the
\* guard holds, and a caller arriving while it is in flight awaits that very
\* promise and starts no attempt.
C3_SingleFlight ==
    /\ [](/\ Cardinality(InFlight) <= 1
          /\ \A a \in InFlight : initializationPromise = a /\ ~isInitialized)
    /\ [][\A c \in Callers :
            (CallStep(c) /\ InFlight # {}) =>
                /\ caller'[c].pc = "awaiting"
                /\ caller'[c].awaits \in InFlight
                /\ caller'[c].role = "waiter"
                /\ nAttempts' = nAttempts
                /\ attempt' = attempt]_vars

\* C3 witness: an attempt is in flight and a second caller waits on its promise.
C3_Witness ==
    \E a \in InFlight : \E c1, c2 \in Callers :
        /\ c1 # c2
        /\ caller[c1].pc = "awaiting" /\ caller[c1].awaits = a /\ caller[c1].role = "initiator"
        /\ caller[c2].pc = "awaiting" /\ caller[c2].awaits = a /\ caller[c2].role = "waiter"

\* C4: retry after failure. A failing attempt resets the guard (the promise
\* becomes null, the flag stays false); a call made while the guard is reset
\* after a failure starts a fresh attempt; and the caller awaiting an attempt
\* that succeeded returns normally.
C4_RetryAfterFailure ==
    [][/\ \A a \in Attempts :
            (a \in InFlight /\ attempt'[a] = "rejected") =>
                (initializationPromise' = NoPromise /\ ~isInitialized')
       /\ \A c \in Callers :
            (/\ CallStep(c)
             /\ \E a \in Attempts : attempt[a] = "rejected"
             /\ InFlight = {}
             /\ ~isInitialized) =>
                /\ nAttempts' = nAttempts + 1
                /\ attempt'[nAttempts'] = "initializing"
                /\ initializationPromise' = nAttempts'
                /\ caller'[c] = [pc |-> "awaiting", awaits |-> nAttempts', role |-> "initiator"]
       /\ \A c \in Callers :
            (/\ caller[c].pc = "awaiting"
             /\ caller'[c].pc # "awaiting"
             /\ attempt[caller[c].awaits] = "fulfilled") =>
                caller'[c].pc = "returned"]_vars

\* C4 witness: an attempt failed, a later one succeeded, and the caller that
\* started the later one has returned normally.
C4_Witness ==
    \E a1, a2 \in Attempts : \E c \in Callers :
        /\ a1 < a2
        /\ attempt[a1] = "rejected"
        /\ attempt[a2] = "fulfilled"
        /\ caller[c] = [pc |-> "returned", awaits |-> a2, role |-> "initiator"]


(***************************************************************************)
(* integration.ts: calculateQualityScore                                   *)
(* Scores are JavaScript numbers. With whole-number confidences every       *)
(* intermediate value is a multiple of 0.01, so the model counts in         *)
(* hundredths; Math.round rounds to the nearest integer, halves upwards.    *)
(***************************************************************************)
NotComputed == -1
Complexities == {"simple", "moderate", "complex", "unknown"}

Min(a, b) == IF a <= b THEN a ELSE b
Max(a, b) == IF a >= b THEN a ELSE b

\* Math.round of h hundredths
MathRound(h) == (h + 50) \div 100

\* calculateQualityScore without the final Math.min(100, ...)
calculateQualityScore_NoCap(factors) ==
    LET base == 5000
        withTemplate == IF factors.appliedTemplate THEN base + 2000 ELSE base
        withPrevention == withTemplate + Min(2000, factors.preventionMeasures * 500)
        withConfidence == withPrevention + Min(1500, factors.patternMatchConfidence * 15)
        withComplexity ==
            IF factors.contextComplexity = "simple" THEN withConfidence + 1000
            ELSE IF factors.contextComplexity = "moderate" THEN withConfidence + 500
            ELSE withConfidence
    IN  MathRound(withComplexity)

\* calculateQualityScore with the prevention term capped at 25 instead of 20
calculateQualityScore_Cap25(factors) ==
    LET base == 5000
        withTemplate == IF factors.appliedTemplate THEN base + 2000 ELSE base
        withPrevention == withTemplate + Min(2500, factors.preventionMeasures * 500)
        withConfidence == withPrevention + Min(1500, factors.patternMatchConfidence * 15)
        withComplexity ==
            IF factors.contextComplexity = "simple" THEN withConfidence + 1000
            ELSE IF factors.contextComplexity = "moderate" THEN withConfidence + 500
            ELSE withConfidence
    IN  Min(100, MathRound(withComplexity))

\* lines 382-398
calculateQualityScore(factors) ==
    LET base == 5000
        withTemplate == IF factors.appliedTemplate THEN base + 2000 ELSE base
        withPrevention == withTemplate + Min(2000, factors.preventionMeasures * 500)
        withConfidence == withPrevention + Min(1500, factors.patternMatchConfidence * 15)
        withComplexity ==
            IF factors.contextComplexity = "simple" THEN withConfidence + 1000
            ELSE IF factors.contextComplexity = "moderate" THEN withConfidence + 500
            ELSE withConfidence
    IN  Min(100, MathRound(withComplexity))

\* the factors Phase 6 (lines 214-219) can pass
QsInputs ==
    [appliedTemplate : BOOLEAN,
     preventionMeasures : 0..MaxMeasures,
     patternMatchConfidence : 0..MaxConfidence,
     contextComplexity : Complexities]

QsInit ==
    /\ qsFactors \in QsInputs
    /\ qsScore = NotComputed
    /\ qsPrev = <<>>

\* a first call with the factors drawn
QsCalculate ==
    /\ qsScore = NotComputed
    /\ qsScore' = calculateQualityScore(qsFactors)
    /\ UNCHANGED <<qsFactors, qsPrev>>
    /\ UNCHANGED nonQsVars

\* a further call whose factors differ only in a larger-or-equal measure count
QsCalculateWithMoreMeasures(m) ==
    /\ qsScore # NotComputed
    /\ qsPrev = <<>>
    /\ m >= qsFactors.preventionMeasures
    /\ qsPrev' = <<[factors |-> qsFactors, score |-> qsScore]>>
    /\ qsFactors' = [qsFactors EXCEPT !.preventionMeasures = m]
    /\ qsScore' = calculateQualityScore(qsFactors')
    /\ UNCHANGED nonQsVars

NextQs ==
    \/ QsCalculate
    \/ \E m \in 0..MaxMeasures : QsCalculateWithMoreMeasures(m)

InitQs == QsInit /\ DbInit /\ TkInit /\ WfInit /\ AppIdle

SpecQs == InitQs /\ [][NextQs]_vars

(***************************************************************************)
(* Claims about calculateQualityScore (checked under SpecQs).               *)
(***************************************************************************)
\* the claimed sum, in hundredths, before rounding
ClaimedSum(f) ==
    5000
    + (IF f.appliedTemplate THEN 2000 ELSE 0)
    + (IF 500 * f.preventionMeasures < 2000 THEN 500 * f.preventionMeasures ELSE 2000)
    + (IF 15 * f.patternMatchConfidence < 1500 THEN 15 * f.patternMatchConfidence ELSE 1500)
    + (CASE f.contextComplexity = "simple" -> 1000
         [] f.contextComplexity = "moderate" -> 500
         [] OTHER -> 0)

\* q is the integer nearest to h hundredths (halves go up)
IsNearest(q, h) == 100 * q - 50 <= h /\ h < 100 * q + 50

\* C5: the score returned is min(100, round(50 + 20 [template] + min(20, 5 x
\* measures) + min(15, 0.15 x confidence) + complexity bonus)) for every
\* measure count >= 0 and confidence in 0..100, and so lies in [50, 100].
C5_QualityScoreFormula ==
    qsScore # NotComputed =>
        /\ \E q \in 0..200 :
              /\ IsNearest(q, ClaimedSum(qsFactors))
              /\ qsScore = (IF q > 100 THEN 100 ELSE q)
        /\ qsScore \in 50..100

\* C5 witness: a computed score where rounding and the cap of the confidence
\* term both matter (confidence 70 gives 10.5 points, rounded up).
C5_Witness ==
    /\ qsScore = 66
    /\ qsFactors = [appliedTemplate |-> FALSE, preventionMeasures |-> 1,
                    patternMatchConfidence |-> 70, contextComplexity |-> "complex"]

\* C6: with template, confidence and complexity fixed, a measure count n <= m
\* never gives a larger score for n than for m, and no score exceeds 100.
C6_MonotoneInMeasures ==
    /\ qsScore # NotComputed => qsScore <= 100
    /\ \A i \in 1..Len(qsPrev) :
          (/\ qsPrev[i].factors.preventionMeasures <= qsFactors.preventionMeasures
           /\ qsPrev[i].factors.appliedTemplate = qsFactors.appliedTemplate
           /\ qsPrev[i].factors.patternMatchConfidence = qsFactors.patternMatchConfidence
           /\ qsPrev[i].factors.contextComplexity = qsFactors.contextComplexity)
              => qsPrev[i].score <= qsScore

\* C6 witness: two calls with 3 and then 5 measures, the second score larger
\* and held at the cap of 100.
C6_Witness ==
    /\ Len(qsPrev) = 1
    /\ qsPrev[1].factors.preventionMeasures = 3
    /\ qsFactors.preventionMeasures = 5
    /\ qsPrev[1].score < qsScore
    /\ qsScore = 100


(***************************************************************************)
(* integration.ts: the team-knowledge list                                 *)
(* An entry's id is `team-<Date.now()>-<nine random base-36 digits>`; the   *)
(* model numbers the entries in push order, so the ids are distinct.        *)
(* sharedAt (a timestamp) is left out.                                      *)
(***************************************************************************)
InitialEffectiveness == 85

TeamId(n) == <<"team", n>>
SessionId(n) == <<"session", n>>

\* shareWithTeam putting the entry at the front of the list (unshift)
shareWithTeam_Unshift(tk, entry) ==
    <<[id |-> TeamId(Len(tk) + 1),
       title |-> entry.title,
       errorSignature |-> entry.errorSignature,
       solution |-> entry.solution,
       prevention |-> entry.prevention,
       sharedBy |-> entry.sharedBy,
       usageCount |-> 0,
       effectiveness |-> InitialEffectiveness,
       teamFeedback |-> [helpful |-> 0, notHelpful |-> 0, comments |-> <<>>]]>> \o tk

\* lines 441-462: build the entry and push it onto the list
shareWithTeam(tk, entry) ==
    Append(tk, [id |-> TeamId(Len(tk) + 1),
                title |-> entry.title,
                errorSignature |-> entry.errorSignature,
                solution |-> entry.solution,
                prevention |-> entry.prevention,
                sharedBy |-> entry.sharedBy,
                usageCount |-> 0,
                effectiveness |-> InitialEffectiveness,
                teamFeedback |-> [helpful |-> 0, notHelpful |-> 0, comments |-> <<>>]])

\* line 568: Array.prototype.find, as the index of the first entry with that
\* id, or 0 when there is none
FindEntry(tk, entryId) ==
    IF \E i \in 1..Len(tk) : tk[i].id = entryId
    THEN CHOOSE i \in 1..Len(tk) :
            /\ tk[i].id = entryId
            /\ \A j \in 1..(i - 1) : tk[j].id # entryId
    ELSE 0

\* the empty string stands for an omitted comment: `if (comment)` is false for both
NoComment == ""

\* recordTeamKnowledgeFeedback without Math.max(0, ...) on line 576
recordTeamKnowledgeFeedback_NoFloor(tk, entryId, helpful, comment) ==
    LET i == FindEntry(tk, entryId) IN
    IF i = 0 THEN tk
    ELSE
        LET e == tk[i]
            rated ==
                IF helpful
                THEN [e EXCEPT !.teamFeedback.helpful = @ + 1,
                               !.effectiveness = Min(100, @ + 2)]
                ELSE [e EXCEPT !.teamFeedback.notHelpful = @ + 1,
                               !.effectiveness = @ - 5]
            commented ==
                IF comment # NoComment
                THEN [rated EXCEPT !.teamFeedback.comments = Append(@, comment)]
                ELSE rated
        IN  [tk EXCEPT ![i] = commented]

\* lines 567-582
recordTeamKnowledgeFeedback(tk, entryId, helpful, comment) ==
    LET i == FindEntry(tk, entryId) IN
    IF i = 0 THEN tk
    ELSE
        LET e == tk[i]
            rated ==
                IF helpful
                THEN [e EXCEPT !.teamFeedback.helpful = @ + 1,
                               !.effectiveness = Min(100, @ + 2)]
                ELSE [e EXCEPT !.teamFeedback.notHelpful = @ + 1,
                               !.effectiveness = Max(0, @ - 5)]
            commented ==
                IF comment # NoComment
                THEN [rated EXCEPT !.teamFeedback.comments = Append(@, comment)]
                ELSE rated
        IN  [tk EXCEPT ![i] = commented]

\* the entry a workflow shares (lines 246-252); its texts play no part in
\* what follows
SharedEntries ==
    {[title |-> "hydration_error Resolution", errorSignature |-> "hydration",
      solution |-> "steps", prevention |-> "measures", sharedBy |-> "dev"]}

\* the ids a caller can pass: the ids of the entries, an id of the same form
\* that no entry has, and a metrics session id
FeedbackIds ==
    {TeamId(n) : n \in 1..(MaxEntries + 1)} \cup {SessionId(1)}

FeedbackCount ==
    LET RECURSIVE Sum(_)
        Sum(i) == IF i = 0 THEN 0
                  ELSE Sum(i - 1) + teamKnowledge[i].teamFeedback.helpful
                                  + teamKnowledge[i].teamFeedback.notHelpful
    IN  Sum(Len(teamKnowledge))

CommentCount ==
    LET RECURSIVE Sum(_)
        Sum(i) == IF i = 0 THEN 0
                  ELSE Sum(i - 1) + Len(teamKnowledge[i].teamFeedback.comments)
    IN  Sum(Len(teamKnowledge))

\* a workflow reaches line 246 and appends an entry
TkShare(entry) ==
    /\ Len(teamKnowledge) < MaxEntries
    /\ teamKnowledge' = shareWithTeam(teamKnowledge, entry)
    /\ tkCall' = [op |-> "shareWithTeam"]
    /\ UNCHANGED nonTkVars

\* a caller records feedback
TkFeedback(entryId, helpful, comment) ==
    /\ FeedbackCount < MaxFeedback
    /\ comment # NoComment => CommentCount < MaxComments
    /\ teamKnowledge' = recordTeamKnowledgeFeedback(teamKnowledge, entryId, helpful, comment)
    /\ tkCall' = [op |-> "recordTeamKnowledgeFeedback", entryId |-> entryId]
    /\ UNCHANGED nonTkVars

NextTk ==
    \/ \E entry \in SharedEntries : TkShare(entry)
    \/ \E entryId \in FeedbackIds, helpful \in BOOLEAN, comment \in {NoComment, "note"} :
          TkFeedback(entryId, helpful, comment)

InitTk == TkInit /\ DbInit /\ QsIdle /\ WfInit /\ AppIdle

SpecTk == InitTk /\ [][NextTk]_vars

(***************************************************************************)
(* Claims about the team knowledge (checked under SpecTk).                  *)
(***************************************************************************)
EntryIds(tk) == {tk[i].id : i \in 1..Len(tk)}

\* C8: after any sequence of appends and feedback calls every entry's
\* effectiveness is within [0, 100]; an appended entry starts at 85, helpful
\* feedback adds 2 capped at 100, unhelpful feedback subtracts 5 floored at 0,
\* and feedback for an unknown id changes nothing.
C8_EffectivenessClamped ==
    /\ [](\A i \in 1..Len(teamKnowledge) : teamKnowledge[i].effectiveness \in 0..100)
    /\ [][/\ Len(teamKnowledge') >= Len(teamKnowledge)
          /\ \A i \in (Len(teamKnowledge) + 1)..Len(teamKnowledge') :
                teamKnowledge'[i].effectiveness = 85
          /\ tkCall'.op = "recordTeamKnowledgeFeedback" =>
                /\ Len(teamKnowledge') = Len(teamKnowledge)
                /\ tkCall'.entryId \notin EntryIds(teamKnowledge) =>
                        teamKnowledge' = teamKnowledge
                /\ \A i \in 1..Len(teamKnowledge) :
                        LET old == teamKnowledge[i].effectiveness
                            new == teamKnowledge'[i].effectiveness
                            oldFb == teamKnowledge[i].teamFeedback
                            newFb == teamKnowledge'[i].teamFeedback
                        IN  IF teamKnowledge[i].id # tkCall'.entryId
                            THEN teamKnowledge'[i] = teamKnowledge[i]
                            ELSE \/ /\ newFb.helpful = oldFb.helpful + 1
                                    /\ newFb.notHelpful = oldFb.notHelpful
                                    /\ new = (IF old + 2 > 100 THEN 100 ELSE old + 2)
                                 \/ /\ newFb.helpful = oldFb.helpful
                                    /\ newFb.notHelpful = oldFb.notHelpful + 1
                                    /\ new = (IF old - 5 < 0 THEN 0 ELSE old - 5)]_vars

\* C8 witness: an entry was rated unhelpful 18 times; the last rating found it
\* at 0 and left it there.
C8_Witness ==
    /\ tkCall.op = "recordTeamKnowledgeFeedback"
    /\ \E i \in 1..Len(teamKnowledge) :
          /\ teamKnowledge[i].id = tkCall.entryId
          /\ teamKnowledge[i].teamFeedback.notHelpful = 18
          /\ teamKnowledge[i].effectiveness = 0

(***************************************************************************)
(* integration.ts: runCompleteWorkflow (lines 85-359)                      *)
(* The function contains no await: a call runs to its return without any    *)
(* other call, configure or feedback in between. `run.pc` names the phase   *)
(* about to execute. The collaborators (pattern recognition, context        *)
(* analysis, core templates, implementation engine, metrics collector) are  *)
(* outside this file: each call of one returns a value drawn from a small   *)
(* set or throws; `run.calls` records the calls made, in order.             *)
(***************************************************************************)
FlagKeys ==
    {"aiAssisted", "metricsEnabled", "preventionRequired",
     "documentationRequired", "patternRecognitionEnabled"}

TeamIntegrations ==
    [notifyOnCritical : BOOLEAN, sharePatterns : BOOLEAN, requireReviews : {FALSE}]

\* the `options` argument: any subset of the flags, with or without a
\* teamIntegration object
Options ==
    LET flagParts == UNION {[K -> BOOLEAN] : K \in SUBSET FlagKeys}
    IN  flagParts \cup
        {f @@ ("teamIntegration" :> ti) : f \in flagParts, ti \in TeamIntegrations}

\* the arguments given to configure
ConfigPatches ==
    {[metricsEnabled |-> FALSE], [metricsEnabled |-> TRUE],
     [documentationRequired |-> FALSE], [documentationRequired |-> TRUE]}

\* errorDetails.message, as the set of the keywords it contains once lowercased
Messages == {{"invalid"}}

\* what analyzeError returns: matches by non-increasing confidence; a match's
\* signature name is the set of keywords it contains once lowercased
PatternMatchLists ==
    {<<>>, <<[name |-> {"hydration"}, confidence |-> 90]>>}

\* what detectAntiPatterns returns
AntiPatternLists ==
    {<<>>, <<[severity |-> "low"]>>, <<[severity |-> "high"], [severity |-> "critical"]>>}

\* what the implementation engine returns as preventionMeasures
MeasureLists(n) == {[i \in 1..k |-> "measure"] : k \in 0..n}

\* the durations Date.now() - startTime can show, in tenths of a minute
TimesSpent == {0, 90}

\* String.prototype.includes on the lowercased text
Includes(text, keyword) == keyword \in text

\* lines 361-380
inferErrorType(errorMessage, matches) ==
    LET byMessage ==
            IF Includes(errorMessage, "hydration") THEN "hydration_error"
            ELSE IF Includes(errorMessage, "cannot access")
                    \/ Includes(errorMessage, "before initialization") THEN "scope_error"
            ELSE IF Includes(errorMessage, "null")
                    \/ Includes(errorMessage, "undefined") THEN "null_reference"
            ELSE IF Includes(errorMessage, "cors")
                    \/ Includes(errorMessage, "fetch") THEN "api_integration"
            ELSE IF Includes(errorMessage, "validation")
                    \/ Includes(errorMessage, "invalid") THEN "validation_error"
            ELSE "generic_error"
    IN  IF Len(matches) > 0 /\ matches[1].confidence > 70
        THEN LET patternName == matches[1].name IN
             IF Includes(patternName, "hydration") THEN "hydration_error"
             ELSE IF Includes(patternName, "scope")
                     \/ Includes(patternName, "temporal") THEN "scope_error"
             ELSE IF Includes(patternName, "null")
                     \/ Includes(patternName, "undefined") THEN "null_reference"
             ELSE IF Includes(patternName, "api")
                     \/ Includes(patternName, "cors") THEN "api_integration"
             ELSE byMessage
        ELSE byMessage

\* antiPatterns.some(ap => ap.severity === 'critical'), lines 261 and 476
CriticalCount(aps) == Cardinality({i \in 1..Len(aps) : aps[i].severity = "critical"})

\* lines 487-493; times in tenths of a minute
calculateEfficiency(actualTime, targetTime) ==
    IF actualTime <= targetTime THEN 100
    ELSE Max(0, (200 * targetTime + actualTime) \div (2 * actualTime))

\* lines 495-500
calculateTeamImpact(documentationCreated, preventionCount) ==
    Min(100, (IF documentationCreated THEN 50 ELSE 0) + Min(50, preventionCount * 10))

\* lines 502-536; each recommendation is named by its first words
generateRecommendations(timeSpent, targetTime, qualityScore, matches, aps, template) ==
    LET recommendations ==
            (IF timeSpent > targetTime THEN <<"Consider optimizing pattern recognition">> ELSE <<>>)
            \o (IF qualityScore < 80 THEN <<"Improve prevention measures">> ELSE <<>>)
            \o (IF Len(matches) = 0 THEN <<"Add custom pattern">> ELSE <<>>)
            \o (IF Len(aps) > 0 /\ CriticalCount(aps) > 0
                THEN <<"Address critical anti-patterns immediately">> ELSE <<>>)
            \o (IF template = Undefined THEN <<"Create specific template">> ELSE <<>>)
    IN  IF Len(recommendations) > 0 THEN recommendations ELSE <<"Excellent work!">>

\* lines 538-561
generateNextSteps(measures, aps, complexity) ==
    (IF Len(measures) > 0 THEN <<"Implement all prevention measures">> ELSE <<>>)
    \o (IF Len(aps) > 0 THEN <<"Schedule code review">> ELSE <<>>)
    \o (IF complexity = "complex" THEN <<"Consider refactoring">> ELSE <<>>)
    \o <<"Test thoroughly", "Monitor for similar issues">>

\* lines 341-357: the result the catch block returns
FailureResult(sessionId, timeSpent) ==
    [sessionId |-> sessionId,
     success |-> FALSE,
     timeSpent |-> timeSpent,
     approach |-> "bugx_v14",
     patternMatches |-> <<>>,
     antiPatterns |-> <<>>,
     appliedTemplate |-> Undefined,
     preventionMeasures |-> <<>>,
     documentationCreated |-> FALSE,
     metrics |-> [efficiency |-> 0, qualityScore |-> 0, teamImpact |-> 0],
     recommendations |-> <<"Retry with manual debugging approach", "Check system configuration">>,
     nextSteps |-> <<"Review error logs", "Validate input parameters">>]


\* lines 81-83; configure cannot run inside a workflow call
configure(newConfig) ==
    /\ run.pc = "idle"
    /\ config' = Merge(config, newConfig)
    /\ UNCHANGED <<run, teamKnowledge>>
    /\ UNCHANGED nonWfVars

\* lines 94-108, Phase 1. The arguments of startSession are evaluated and the
\* call is made before the try block is entered, so an exception here leaves
\* the function: the promise it returned is rejected.
WfInitSession ==
    /\ run.pc = "idle"
    /\ Len(teamKnowledge) < MaxEntries
    /\ \E options \in Options, message \in Messages :
        LET started == [IdleRun EXCEPT !.workflowConfig = Merge(config, options),
                                       !.message = message]
        IN  IF config.metricsEnabled
            THEN \/ run' = [started EXCEPT !.pc = "PatternRecognition",
                                           !.sessionId = <<"session", 1>>,
                                           !.calls = <<"startSession">>]
                 \/ run' = [started EXCEPT !.pc = "rejected",
                                           !.calls = <<"startSession throws">>]
            ELSE run' = [started EXCEPT !.pc = "PatternRecognition",
                                        !.sessionId = <<"session", 0>>]
    /\ UNCHANGED <<config, teamKnowledge>>
    /\ UNCHANGED nonWfVars

\* lines 111-137, Phase 2
WfPatternRecognition ==
    /\ run.pc = "PatternRecognition"
    /\ IF run.workflowConfig.patternRecognitionEnabled
       THEN \E pm \in PatternMatchLists, ap \in AntiPatternLists :
                run' = [run EXCEPT !.pc = "ContextAnalysis",
                                   !.patternMatches = pm,
                                   !.antiPatterns = ap,
                                   !.calls = @ \o <<"analyzeError", "detectAntiPatterns">>]
       ELSE run' = [run EXCEPT !.pc = "ContextAnalysis"]
    /\ UNCHANGED <<config, teamKnowledge>>
    /\ UNCHANGED nonWfVars

\* lines 139-159, Phase 3
WfContextAnalysis ==
    /\ run.pc = "ContextAnalysis"
    /\ \E complexity \in {"simple", "complex"} :
            run' = [run EXCEPT !.pc = "TemplateMatch",
                               !.complexity = complexity,
                               !.calls = Append(@, "analyzeContext")]
    /\ UNCHANGED <<config, teamKnowledge>>
    /\ UNCHANGED nonWfVars

\* Phase 4 without the inner try: NotFound reaches the outer catch
WfTemplateMatch_Propagates ==
    /\ run.pc = "TemplateMatch"
    /\ LET errorType == inferErrorType(run.message, run.patternMatches)
           typed == [run EXCEPT !.pc = "Implementation", !.errorType = errorType]
       IN  \/ run' = [typed EXCEPT !.appliedTemplate = errorType,
                                   !.calls = @ \o <<"getTemplate", "recordTemplateUsage">>]
           \/ run' = [typed EXCEPT !.pc = "catch",
                                   !.calls = Append(@, "getTemplate throws NotFound")]
    /\ UNCHANGED <<config, teamKnowledge>>
    /\ UNCHANGED nonWfVars

\* lines 161-175, Phase 4. getTemplate returns a template (named here after
\* its error type) or throws NotFound, which the inner try swallows.
WfTemplateMatch ==
    /\ run.pc = "TemplateMatch"
    /\ LET errorType == inferErrorType(run.message, run.patternMatches)
           typed == [run EXCEPT !.pc = "Implementation", !.errorType = errorType]
       IN  \/ run' = [typed EXCEPT !.appliedTemplate = errorType,
                                   !.calls = @ \o <<"getTemplate", "recordTemplateUsage">>]
           \/ run' = [typed EXCEPT !.calls = Append(@, "getTemplate throws NotFound")]
    /\ UNCHANGED <<config, teamKnowledge>>
    /\ UNCHANGED nonWfVars

\* Phase 5 where a disabled aiAssisted is treated as an error
WfImplementation_SkipFails ==
    /\ run.pc = "Implementation"
    /\ IF run.workflowConfig.aiAssisted
       THEN \E measures \in MeasureLists(MaxRunMeasures) :
                run' = [run EXCEPT !.pc = "QualityValidation",
                                   !.preventionMeasures = measures,
                                   !.calls = @ \o <<"generateWorkflowPrompts", "generateImplementation">>]
       ELSE run' = [run EXCEPT !.pc = "catch"]
    /\ UNCHANGED <<config, teamKnowledge>>
    /\ UNCHANGED nonWfVars

\* lines 177-209, Phase 5. What the engine makes of preventionRequired is
\* its own business: it returns any list of prevention measures.
WfImplementation ==
    /\ run.pc = "Implementation"
    /\ IF run.workflowConfig.aiAssisted
       THEN \E measures \in MeasureLists(MaxRunMeasures) :
                run' = [run EXCEPT !.pc = "QualityValidation",
                                   !.preventionMeasures = measures,
                                   !.calls = @ \o <<"generateWorkflowPrompts", "generateImplementation">>]
       ELSE run' = [run EXCEPT !.pc = "QualityValidation"]
    /\ UNCHANGED <<config, teamKnowledge>>
    /\ UNCHANGED nonWfVars

\* lines 211-221, Phase 6
WfQualityValidation ==
    /\ run.pc = "QualityValidation"
    /\ run' = [run EXCEPT
                !.pc = "Documentation",
                !.qualityScore = calculateQualityScore(
                    [appliedTemplate |-> run.appliedTemplate # Undefined,
                     preventionMeasures |-> Len(run.preventionMeasures),
                     patternMatchConfidence |->
                        IF Len(run.patternMatches) > 0
                        THEN run.patternMatches[1].confidence ELSE 0,
                     contextComplexity |-> run.complexity])]
    /\ UNCHANGED <<config, teamKnowledge>>
    /\ UNCHANGED nonWfVars

\* Phase 7 reading the global flag this.config.documentationRequired instead
\* of workflowConfig.documentationRequired
WfDocumentation_GlobalFlag ==
    /\ run.pc = "Documentation"
    /\ IF config.documentationRequired
       THEN /\ run' = [run EXCEPT
                        !.pc = "TeamNotification",
                        !.documentationCreated = TRUE,
                        !.calls = @ \o (IF config.metricsEnabled
                                        THEN <<"addDocumentation">> ELSE <<>>)
                                    \o (IF run.workflowConfig.teamIntegration.sharePatterns
                                        THEN <<"shareWithTeam">> ELSE <<>>)]
            /\ teamKnowledge' =
                IF run.workflowConfig.teamIntegration.sharePatterns
                THEN shareWithTeam(teamKnowledge,
                        [title |-> run.errorType,
                         errorSignature |-> run.message,
                         solution |-> "steps",
                         prevention |-> run.preventionMeasures,
                         sharedBy |-> "dev"])
                ELSE teamKnowledge
       ELSE /\ run' = [run EXCEPT !.pc = "TeamNotification"]
            /\ UNCHANGED teamKnowledge
    /\ UNCHANGED config
    /\ UNCHANGED nonWfVars

\* lines 223-257, Phase 7
WfDocumentation ==
    /\ run.pc = "Documentation"
    /\ IF run.workflowConfig.documentationRequired
       THEN /\ run' = [run EXCEPT
                        !.pc = "TeamNotification",
                        !.documentationCreated = TRUE,
                        !.calls = @ \o (IF config.metricsEnabled
                                        THEN <<"addDocumentation">> ELSE <<>>)
                                    \o (IF run.workflowConfig.teamIntegration.sharePatterns
                                        THEN <<"shareWithTeam">> ELSE <<>>)]
            /\ teamKnowledge' =
                IF run.workflowConfig.teamIntegration.sharePatterns
                THEN shareWithTeam(teamKnowledge,
                        [title |-> run.errorType,
                         errorSignature |-> run.message,
                         solution |-> "steps",
                         prevention |-> run.preventionMeasures,
                         sharedBy |-> "dev"])
                ELSE teamKnowledge
       ELSE /\ run' = [run EXCEPT !.pc = "TeamNotification"]
            /\ UNCHANGED teamKnowledge
    /\ UNCHANGED config
    /\ UNCHANGED nonWfVars

\* Phase 8 without the test of the severity: any anti-pattern notifies
WfTeamNotification_AnySeverity ==
    /\ run.pc = "TeamNotification"
    /\ IF /\ run.workflowConfig.teamIntegration.notifyOnCritical
          /\ Len(run.antiPatterns) > 0
       THEN run' = [run EXCEPT !.pc = "CompleteSession",
                               !.calls = Append(@, "notifyTeamOfCriticalIssues")]
       ELSE run' = [run EXCEPT !.pc = "CompleteSession"]
    /\ UNCHANGED <<config, teamKnowledge>>
    /\ UNCHANGED nonWfVars

\* lines 259-266, Phase 8
WfTeamNotification ==
    /\ run.pc = "TeamNotification"
    /\ IF /\ run.workflowConfig.teamIntegration.notifyOnCritical
          /\ CriticalCount(run.antiPatterns) > 0
       THEN run' = [run EXCEPT !.pc = "CompleteSession",
                               !.calls = Append(@, "notifyTeamOfCriticalIssues")]
       ELSE run' = [run EXCEPT !.pc = "CompleteSession"]
    /\ UNCHANGED <<config, teamKnowledge>>
    /\ UNCHANGED nonWfVars

\* lines 268-284, Phase 9
WfCompleteSession ==
    /\ run.pc = "CompleteSession"
    /\ \E timeSpent \in TimesSpent :
            run' = [run EXCEPT
                     !.pc = "Recommendations",
                     !.timeSpent = timeSpent,
                     !.calls = @ \o (IF config.metricsEnabled
                                     THEN <<"completeSession success">> ELSE <<>>)]
    /\ UNCHANGED <<config, teamKnowledge>>
    /\ UNCHANGED nonWfVars

\* lines 286-324, Phase 10 and the result of a successful call
WfRecommendations ==
    /\ run.pc = "Recommendations"
    /\ run' = [run EXCEPT
                !.pc = "SessionComplete",
                !.result =
                    [sessionId |-> run.sessionId,
                     success |-> TRUE,
                     timeSpent |-> run.timeSpent,
                     approach |-> IF run.timeSpent <= run.workflowConfig.timeTarget
                                  THEN "bugx_v14" ELSE "full_bugx",
                     patternMatches |-> run.patternMatches,
                     antiPatterns |-> run.antiPatterns,
                     appliedTemplate |-> run.appliedTemplate,
                     preventionMeasures |-> run.preventionMeasures,
                     documentationCreated |-> run.documentationCreated,
                     metrics |->
                        [efficiency |-> calculateEfficiency(run.timeSpent,
                                            run.workflowConfig.timeTarget),
                         qualityScore |-> run.qualityScore,
                         teamImpact |-> calculateTeamImpact(run.documentationCreated,
                                            Len(run.preventionMeasures))],
                     recommendations |->
                        generateRecommendations(run.timeSpent,
                            run.workflowConfig.timeTarget, run.qualityScore,
                            run.patternMatches, run.antiPatterns, run.appliedTemplate),
                     nextSteps |->
                        generateNextSteps(run.preventionMeasures, run.antiPatterns,
                                          run.complexity)]]
    /\ UNCHANGED <<config, teamKnowledge>>
    /\ UNCHANGED nonWfVars

\* CanThrow with an exception possible in Phase 10, after completeSession
CanThrow_AfterCompletion ==
    \/ run.pc = "PatternRecognition" /\ run.workflowConfig.patternRecognitionEnabled
    \/ run.pc = "ContextAnalysis"
    \/ run.pc = "TemplateMatch"
    \/ run.pc = "Implementation" /\ run.workflowConfig.aiAssisted
    \/ run.pc = "Documentation" /\ run.workflowConfig.documentationRequired
    \/ run.pc = "Recommendations"

\* metrics-system (outside this file): completeSession finalizes the session
\* and, for an id it does not know, fails silently rather than raising
completeSessionRaises == FALSE

\* the phases of the try block in which a statement can throw: a collaborator
\* call, or a property read on a malformed argument (message.toLowerCase on
\* line 372, codeContext.substring on line 425). A skipped phase executes
\* nothing and cannot throw. Phases 6, 8 and 10 run code of this file on
\* values the earlier phases have already read.
CanThrow ==
    \/ run.pc = "PatternRecognition" /\ run.workflowConfig.patternRecognitionEnabled
    \/ run.pc = "ContextAnalysis"
    \/ run.pc = "TemplateMatch"
    \/ run.pc = "Implementation" /\ run.workflowConfig.aiAssisted
    \/ run.pc = "Documentation" /\ run.workflowConfig.documentationRequired
    \/ run.pc = "CompleteSession" /\ config.metricsEnabled /\ completeSessionRaises

\* an exception inside the try block transfers control to the catch on line 326
WfPhaseThrows ==
    /\ CanThrow
    /\ run' = [run EXCEPT !.pc = "catch", !.calls = Append(@, run.pc \o " throws")]
    /\ UNCHANGED <<config, teamKnowledge>>
    /\ UNCHANGED nonWfVars

\* the catch block without the call of completeSession
WfCatch_NoComplete ==
    /\ run.pc = "catch"
    /\ \E timeSpent \in TimesSpent :
            run' = [run EXCEPT
                     !.pc = "Failed",
                     !.timeSpent = timeSpent,
                     !.result = FailureResult(run.sessionId, timeSpent)]
    /\ UNCHANGED <<config, teamKnowledge>>
    /\ UNCHANGED nonWfVars

\* lines 326-358: the catch block
WfCatch ==
    /\ run.pc = "catch"
    /\ \E timeSpent \in TimesSpent :
            run' = [run EXCEPT
                     !.pc = "Failed",
                     !.timeSpent = timeSpent,
                     !.calls = @ \o (IF config.metricsEnabled
                                     THEN <<"completeSession failure">> ELSE <<>>),
                     !.result = FailureResult(run.sessionId, timeSpent)]
    /\ UNCHANGED <<config, teamKnowledge>>
    /\ UNCHANGED nonWfVars

\* the call is over: its promise has settled and its locals are gone
WfReturn ==
    /\ run.pc \in {"SessionComplete", "Failed", "rejected"}
    /\ run' = IdleRun
    /\ UNCHANGED <<config, teamKnowledge>>
    /\ UNCHANGED nonWfVars

NextWf ==
    \/ \E newConfig \in ConfigPatches : configure(newConfig)
    \/ WfInitSession
    \/ WfPatternRecognition
    \/ WfContextAnalysis
    \/ WfTemplateMatch
    \/ WfImplementation
    \/ WfQualityValidation
    \/ WfDocumentation
    \/ WfTeamNotification
    \/ WfCompleteSession
    \/ WfRecommendations
    \/ WfPhaseThrows
    \/ WfCatch
    \/ WfReturn

InitWf == WfInit /\ TkInit /\ DbInit /\ QsIdle /\ AppIdle

SpecWf == InitWf /\ [][NextWf]_vars

(***************************************************************************)
(* app/(login)/actions.ts: signIn (lines 44-136)                            *)
(* validatedAction has parsed the form with signInSchema before the body    *)
(* runs. The users table is given; the query layer either answers or        *)
(* throws. The session utility and the demo fallback are outside this file: *)
(* validateDemoCredentials answers for the one demo account the messages on *)
(* lines 68 and 100 name, setSession stores the user id in the session      *)
(* cookie, redirect leaves the action with the framework's redirect signal. *)
(***************************************************************************)
DemoEmail == "test@test.com"
DemoPassword == "admin123"
DemoUserId == 999

Emails == {DemoEmail, "amy@example.com", "bob@example.com"}
Passwords == {DemoPassword, "password1"}

validateDemoCredentials(email, password) ==
    email = DemoEmail /\ password = DemoPassword

\* what signIn returns when it returns
ErrorObject(error, email, password) ==
    [kind |-> "return", error |-> error, email |-> email, password |-> password]

Redirect(to) == [kind |-> "redirect", to |-> to]

\* line 45: the body starts; the first await is the demo check (line 52) in
\* fallback mode and the query (line 75) otherwise
SiCall(email, password) ==
    /\ si.pc = "idle"
    /\ ac.pc = "idle"
    /\ Len(activityLogs) < MaxActivityLogs
    /\ si' = [pc |-> IF fallbackMode THEN "demoMode" ELSE "lookup",
              email |-> email, password |-> password, lookup |-> "none"]
    /\ UNCHANGED <<fallbackMode, session, activityLogs>>
    /\ UNCHANGED <<dbVars, qsVars, tkVars, wfVars, guVars, seVars, ptVars, acVars>>

\* lines 50-71: demo mode
SiDemoMode ==
    /\ si.pc = "demoMode"
    /\ IF validateDemoCredentials(si.email, si.password)
       THEN /\ session' = DemoUserId
            /\ si' = [si EXCEPT !.pc = "done"] @@ ("outcome" :> Redirect("/?_auth"))
       ELSE /\ session' = session
            /\ si' = [si EXCEPT !.pc = "done"] @@
                     ("outcome" :> ErrorObject("Invalid email or password. (Demo mode)",
                                               si.email, si.password))
    /\ UNCHANGED <<fallbackMode, activityLogs>>
    /\ UNCHANGED <<dbVars, qsVars, tkVars, wfVars, guVars, seVars, ptVars, acVars>>

\* the query of lines 75-79 without the try around it, as in signUp
SiLookup_NoCatch ==
    /\ si.pc = "lookup"
    /\ \/ si' = [si EXCEPT !.pc = "check", !.lookup = "answered"] @@
                ("foundUser" :> {u \in users : u.email = si.email})
       \/ si' = [si EXCEPT !.pc = "done", !.lookup = "threw"] @@
                ("outcome" :> [kind |-> "reject", error |-> "DatabaseError"])
    /\ UNCHANGED <<fallbackMode, session, activityLogs>>
    /\ UNCHANGED <<dbVars, qsVars, tkVars, wfVars, guVars, seVars, ptVars, acVars>>

\* lines 73-83: the query answers with at most one row, or throws into the
\* catch block
SiLookup ==
    /\ si.pc = "lookup"
    /\ \/ si' = [si EXCEPT !.pc = "check", !.lookup = "answered"] @@
                ("foundUser" :> {u \in users : u.email = si.email})
       \/ si' = [si EXCEPT !.pc = "catch", !.lookup = "threw"]
    /\ UNCHANGED <<fallbackMode, session, activityLogs>>
    /\ UNCHANGED <<dbVars, qsVars, tkVars, wfVars, guVars, seVars, ptVars, acVars>>

\* lines 83-104: the catch block
SiDatabaseFallback ==
    /\ si.pc = "catch"
    /\ IF validateDemoCredentials(si.email, si.password)
       THEN /\ session' = DemoUserId
            /\ si' = [si EXCEPT !.pc = "done"] @@ ("outcome" :> Redirect("/?_auth"))
       ELSE /\ session' = session
            /\ si' = [si EXCEPT !.pc = "done"] @@
                     ("outcome" :> ErrorObject("Database unavailable", si.email, si.password))
    /\ UNCHANGED <<fallbackMode, activityLogs>>
    /\ UNCHANGED <<dbVars, qsVars, tkVars, wfVars, guVars, seVars, ptVars, acVars>>

\* lines 106-128 without the test of line 122: any row found passes
SiCheckUser_NoPasswordCheck ==
    /\ si.pc = "check"
    /\ IF si.foundUser # {}
       THEN si' = [si EXCEPT !.pc = "establish"]
       ELSE si' = [pc |-> "done", email |-> si.email, password |-> si.password,
                   lookup |-> si.lookup,
                   outcome |-> ErrorObject("Invalid email or password", si.email, si.password)]
    /\ UNCHANGED <<fallbackMode, session, activityLogs>>
    /\ UNCHANGED <<dbVars, qsVars, tkVars, wfVars, guVars, seVars, ptVars, acVars>>

\* lines 106-128: no such user, or the password does not match
SiCheckUser ==
    /\ si.pc = "check"
    /\ IF \E u \in si.foundUser : comparePasswords(si.password, u.passwordHash)
       THEN si' = [si EXCEPT !.pc = "establish"]
       ELSE si' = [pc |-> "done", email |-> si.email, password |-> si.password,
                   lookup |-> si.lookup,
                   outcome |-> ErrorObject("Invalid email or password", si.email, si.password)]
    /\ UNCHANGED <<fallbackMode, session, activityLogs>>
    /\ UNCHANGED <<dbVars, qsVars, tkVars, wfVars, guVars, seVars, ptVars, acVars>>

\* lines 130-135 with the two writes awaited one after the other and the
\* failure of the activity log ignored
SiEstablishSession_LogOptional ==
    /\ si.pc = "establish"
    /\ LET user == CHOOSE u \in si.foundUser : TRUE
           ended == [pc |-> "done", email |-> si.email, password |-> si.password,
                     lookup |-> si.lookup]
       IN  \E sessionSet \in BOOLEAN, logWritten \in BOOLEAN :
            /\ session' = IF sessionSet THEN user.id ELSE session
            /\ activityLogs' =
                  IF logWritten
                  THEN Append(activityLogs, [userId |-> user.id, action |-> "SIGN_IN"])
                  ELSE activityLogs
            /\ si' = ended @@
                  ("sessionSet" :> sessionSet) @@ ("logWritten" :> logWritten) @@
                  ("outcome" :> IF sessionSet
                                THEN Redirect("/")
                                ELSE [kind |-> "reject", error |-> "SessionError"])
    /\ UNCHANGED fallbackMode
    /\ UNCHANGED <<dbVars, qsVars, tkVars, wfVars, guVars, seVars, ptVars, acVars>>

\* lines 130-135: Promise.all starts setSession and logActivity together and
\* rejects as soon as either rejects; the other write still runs to its end.
\* setSession may fail and the insert of logActivity (line 36) may throw;
\* redirect is reached only when both promises are fulfilled.
SiEstablishSession ==
    /\ si.pc = "establish"
    /\ LET user == CHOOSE u \in si.foundUser : TRUE
           ended == [pc |-> "done", email |-> si.email, password |-> si.password,
                     lookup |-> si.lookup]
       IN  \E sessionSet \in BOOLEAN, logWritten \in BOOLEAN :
            /\ session' = IF sessionSet THEN user.id ELSE session
            /\ activityLogs' =
                  IF logWritten
                  THEN Append(activityLogs, [userId |-> user.id, action |-> "SIGN_IN"])
                  ELSE activityLogs
            /\ si' = ended @@
                  ("sessionSet" :> sessionSet) @@ ("logWritten" :> logWritten) @@
                  ("outcome" :> IF sessionSet /\ logWritten
                                THEN Redirect("/")
                                ELSE IF sessionSet
                                THEN [kind |-> "reject", error |-> "DatabaseError"]
                                ELSE [kind |-> "reject", error |-> "SessionError"])
    /\ UNCHANGED fallbackMode
    /\ UNCHANGED <<dbVars, qsVars, tkVars, wfVars, guVars, seVars, ptVars, acVars>>

\* the action is over
SiReturn ==
    /\ si.pc = "done"
    /\ si' = IdleSignIn
    /\ UNCHANGED <<fallbackMode, session, activityLogs>>
    /\ UNCHANGED <<dbVars, qsVars, tkVars, wfVars, guVars, seVars, ptVars, acVars>>

NextSi ==
    \/ \E email \in Emails, password \in Passwords : SiCall(email, password)
    \/ SiDemoMode
    \/ SiLookup
    \/ SiDatabaseFallback
    \/ SiCheckUser
    \/ SiEstablishSession
    \/ SiReturn

\* FALLBACK_MODE_ENABLED is either value
SiInit ==
    /\ fallbackMode \in BOOLEAN
    /\ si = IdleSignIn
    /\ session = NoSession
    /\ activityLogs = <<>>

InitSi == SiInit /\ GuIdle /\ SeIdle /\ PtIdle /\ AcIdle /\ DbInit /\ QsIdle /\ TkInit /\ WfInit

SpecSi == InitSi /\ [][NextSi]_vars

NoCookie == "no cookie"
\* the callers that call getUser (the first of the callers of the guard)
GuCallers == 1..NumGuCallers
\* new Date() on line 31
Now == 10

\* the value of the session cookie the request carries
CookieValues == {NoCookie, "", "garbage", "nouser", "strid", "amy", "amy-expired", "bob", "carl"}

\* the payload a well-formed token carries: sessionData.user (if any), the
\* type of sessionData.user.id, and sessionData.expires
Payload(token) ==
    CASE token = "nouser" ->
            [kind |-> "payload", hasUser |-> FALSE, id |-> 0, idType |-> "undefined", expires |-> Now + 10]
      [] token = "strid" ->
            [kind |-> "payload", hasUser |-> TRUE, id |-> 1, idType |-> "string", expires |-> Now + 10]
      [] token = "amy" ->
            [kind |-> "payload", hasUser |-> TRUE, id |-> 1, idType |-> "number", expires |-> Now + 10]
      [] token = "amy-expired" ->
            [kind |-> "payload", hasUser |-> TRUE, id |-> 1, idType |-> "number", expires |-> Now - 5]
      [] token = "bob" ->
            [kind |-> "payload", hasUser |-> TRUE, id |-> 2, idType |-> "number", expires |-> Now + 10]
      [] token = "carl" ->
            [kind |-> "payload", hasUser |-> TRUE, id |-> 3, idType |-> "number", expires |-> Now + 10]
      [] token = "demo" ->
            [kind |-> "payload", hasUser |-> TRUE, id |-> DemoUserId, idType |-> "number",
             expires |-> Now + 10]

\* what `await verifyToken(value)` can do
verifyToken(token) ==
    IF token = "garbage" THEN {[kind |-> "null"], [kind |-> "throws"]} ELSE {Payload(token)}

\* the ways a call of getUser ends
ReturnNull == [kind |-> "return null"]
ReturnUser(user) == [kind |-> "return user", user |-> user]
Rejects(error) == [kind |-> "reject", error |-> error]

\* line 11: getUser is called and calls ensureDatabaseInitialized
GuCall(c) ==
    /\ gu[c].pc = "idle"
    /\ caller[c].pc = "idle"
    /\ ensureDatabaseInitialized(c)

\* lines 9-17: the await of line 11 is over; a rejection is caught and makes
\* getUser return null, otherwise getUser goes on to await cookies()
GuAfterInit(c) ==
    /\ gu[c].pc = "idle"
    /\ caller[c].pc \in {"returned", "threw"}
    /\ gu' = [gu EXCEPT ![c] =
                IF caller[c].pc = "threw"
                THEN [pc |-> "done", cookie |-> NoCookie, initFailed |-> TRUE,
                      queryThrew |-> FALSE, outcome |-> ReturnNull]
                ELSE [pc |-> "cookie"]]
    /\ caller' = [caller EXCEPT ![c] = [pc |-> "idle", awaits |-> NoPromise, role |-> "none"]]
    /\ UNCHANGED <<isInitialized, initializationPromise, attempt, nAttempts>>
    /\ UNCHANGED <<qsVars, tkVars, wfVars, siVars, seVars, ptVars, acVars>>

\* lines 17-22: the cookie is read; without a value getUser returns null,
\* otherwise it awaits verifyToken
GuReadCookie(c) ==
    /\ gu[c].pc = "cookie"
    /\ \E cookie \in CookieValues :
        gu' = [gu EXCEPT ![c] =
                IF cookie = NoCookie \/ cookie = ""
                THEN [pc |-> "done", cookie |-> cookie, initFailed |-> FALSE,
                      queryThrew |-> FALSE, outcome |-> ReturnNull]
                ELSE [pc |-> "verify", cookie |-> cookie]]
    /\ UNCHANGED <<dbVars, qsVars, tkVars, wfVars, siVars, seVars, ptVars, acVars>>

\* lines 22-36: verifyToken settles; it is awaited outside both try blocks,
\* so its exception leaves getUser. Then the checks of lines 23-33.
GuVerify(c) ==
    /\ gu[c].pc = "verify"
    /\ \E sessionData \in verifyToken(gu[c].cookie) :
        LET ended(outcome) == [pc |-> "done", cookie |-> gu[c].cookie, initFailed |-> FALSE,
                               queryThrew |-> FALSE, outcome |-> outcome]
        IN  gu' = [gu EXCEPT ![c] =
                IF sessionData.kind = "throws" THEN ended(Rejects("verifyToken"))
                ELSE IF sessionData.kind = "null" THEN ended(ReturnNull)
                ELSE IF ~sessionData.hasUser THEN ended(ReturnNull)
                ELSE IF sessionData.idType # "number" THEN ended(ReturnNull)
                ELSE IF sessionData.expires < Now THEN ended(ReturnNull)
                ELSE [pc |-> "query", cookie |-> gu[c].cookie, id |-> sessionData.id]]
    /\ UNCHANGED <<dbVars, qsVars, tkVars, wfVars, siVars, seVars, ptVars, acVars>>

\* lines 35-50: the query answers with at most one row, or throws into the
\* catch block
GuQuery(c) ==
    /\ gu[c].pc = "query"
    /\ LET ended(threw, outcome) == [pc |-> "done", cookie |-> gu[c].cookie, initFailed |-> FALSE,
                                   queryThrew |-> threw, outcome |-> outcome]
           user == {u \in users : u.id = gu[c].id /\ u.deletedAt = NotDeleted}
       IN  \/ gu' = [gu EXCEPT ![c] =
                        IF user = {} THEN ended(FALSE, ReturnNull)
                        ELSE ended(FALSE, ReturnUser(CHOOSE u \in user : TRUE))]
           \/ gu' = [gu EXCEPT ![c] = ended(TRUE, ReturnNull)]
    /\ UNCHANGED <<dbVars, qsVars, tkVars, wfVars, siVars, seVars, ptVars, acVars>>

\* the call is over
GuReturn(c) ==
    /\ gu[c].pc = "done"
    /\ gu' = [gu EXCEPT ![c] = [pc |-> "idle"]]
    /\ UNCHANGED <<dbVars, qsVars, tkVars, wfVars, siVars, seVars, ptVars, acVars>>

NextGu ==
    \/ \E c \in GuCallers : GuCall(c)
    \/ \E a \in Attempts : initializeDatabaseSettles(a)
    \/ \E a \in Attempts : seedDatabaseSettles(a)
    \/ \E c \in GuCallers : AwaitResumes(c)
    \/ \E c \in GuCallers : GuAfterInit(c)
    \/ \E c \in GuCallers : GuReadCookie(c)
    \/ \E c \in GuCallers : GuVerify(c)
    \/ \E c \in GuCallers : GuQuery(c)
    \/ \E c \in GuCallers : GuReturn(c)

InitGu == GuIdle /\ DbInit /\ SiIdle /\ SeIdle /\ PtIdle /\ AcIdle /\ QsIdle /\ TkInit /\ WfInit

SpecGu == InitGu /\ [][NextGu]_vars


(***************************************************************************)
(* Claims about getUser (checked under SpecGu).                             *)
(***************************************************************************)
\* the user row a session cookie entitles to: the token verifies, carries a
\* numeric user id, is unexpired, and the row with that id is not soft-deleted
EntitledRows(cookie) ==
    IF cookie \in {NoCookie, "", "garbage"} THEN {}
    ELSE {u \in users :
            /\ Payload(cookie).hasUser
            /\ Payload(cookie).idType = "number"
            /\ Payload(cookie).expires >= Now
            /\ u.id = Payload(cookie).id
            /\ u.deletedAt = NotDeleted}

\* C14: getUser converts every failure into a null result and never throws:
\* a finished call has returned, never rejected; it has returned a user row
\* only when the token verified, the session is unexpired and the row with
\* that id has deletedAt null, and null after an initialization failure, a
\* missing or empty cookie, an invalid token, an expired session, a missing
\* or soft-deleted user or a failing query.
C14_GetUserNeverThrows ==
    \A c \in GuCallers :
        gu[c].pc = "done" =>
            /\ gu[c].outcome.kind \in {"return null", "return user"}
            /\ gu[c].outcome.kind = "return user" =>
                /\ ~gu[c].initFailed /\ ~gu[c].queryThrew
                /\ gu[c].outcome.user \in EntitledRows(gu[c].cookie)
            /\ (gu[c].initFailed \/ gu[c].queryThrew \/ EntitledRows(gu[c].cookie) = {}) =>
                gu[c].outcome.kind = "return null"

(***************************************************************************)
(* The database setup endpoint: POST and GET (actions.ts lines 334-425),    *)
(* with the statements of scripts/create-supabase-tables.sql. Requests are  *)
(* sent one after the other. Every `await db.execute` either runs its       *)
(* statement or throws; the statements are not in a transaction, so what    *)
(* ran before an exception stays. The database is its tables, its indexes   *)
(* and the rows of users (email and name), in insertion order.              *)
(***************************************************************************)
TestUser == [email |-> "test@test.com", name |-> "Test User"]

SetupIndexes == {"idx_users_email", "idx_activity_logs_user_id", "idx_activity_logs_timestamp"}

\* the statements of POST in order, then the end of the handler
SetupStatements ==
    <<"createUsers", "createActivityLogs", "indexUsersEmail", "indexLogsUserId",
      "indexLogsTimestamp", "insertTestUser", "countUsers", "selectTestUser">>

\* the databases the endpoint may find: nothing yet, or the tables already
\* created by the migrations, with or without rows in users
InitialDatabases ==
    {EmptyDatabase}
    \cup {[tables |-> {"users", "activity_logs"}, indexes |-> {}, users |-> rows] :
            rows \in {<<>>,
                      <<[email |-> "amy@example.com", name |-> "Amy"]>>,
                      <<[email |-> "test@test.com", name |-> "Existing"]>>}}

HasEmail(rows, email) == \E i \in 1..Len(rows) : rows[i].email = email

\* INSERT INTO users ... with neither the UNIQUE constraint on email nor the
\* ON CONFLICT clause
InsertTestUser_Always(d) == [d EXCEPT !.users = Append(@, TestUser)]

\* lines 386-390: INSERT INTO users ... ON CONFLICT (email) DO NOTHING; email
\* is UNIQUE (line 352)
InsertTestUser(d) ==
    IF HasEmail(d.users, TestUser.email) THEN d
    ELSE [d EXCEPT !.users = Append(@, TestUser)]

\* the database after a statement of POST has run on database d
Execute(statement, d) ==
    CASE statement = "createUsers" -> [d EXCEPT !.tables = @ \cup {"users"}]
      [] statement = "createActivityLogs" -> [d EXCEPT !.tables = @ \cup {"activity_logs"}]
      [] statement = "indexUsersEmail" -> [d EXCEPT !.indexes = @ \cup {"idx_users_email"}]
      [] statement = "indexLogsUserId" ->
            [d EXCEPT !.indexes = @ \cup {"idx_activity_logs_user_id"}]
      [] statement = "indexLogsTimestamp" ->
            [d EXCEPT !.indexes = @ \cup {"idx_activity_logs_timestamp"}]
      [] statement = "insertTestUser" -> InsertTestUser(d)
      [] OTHER -> d

\* line 343: a POST request arrives and reaches its first await
SePost ==
    /\ setup.pc = "idle"
    /\ Len(setup.responses) < MaxPosts
    /\ setup' = [setup EXCEPT !.pc = "POST", !.statement = 1]
    /\ UNCHANGED database
    /\ UNCHANGED <<dbVars, qsVars, tkVars, wfVars, guVars, siVars, ptVars, acVars>>

\* lines 348-397: the statement awaited runs; after the last one the handler
\* answers with success (lines 400-407)
SeExecute ==
    /\ setup.pc = "POST"
    /\ database' = Execute(SetupStatements[setup.statement], database)
    /\ setup' = IF setup.statement < Len(SetupStatements)
                THEN [setup EXCEPT !.statement = @ + 1]
                ELSE [pc |-> "idle", statement |-> 1,
                      responses |-> Append(setup.responses,
                            [method |-> "POST", success |-> TRUE,
                             userCount |-> Len(database.users),
                             testUser |-> TestUser.email])]
    /\ UNCHANGED <<dbVars, qsVars, tkVars, wfVars, guVars, siVars, ptVars, acVars>>

\* lines 409-418: the statement awaited throws; the handler answers 500
SeStatementThrows ==
    /\ setup.pc = "POST"
    /\ setup' = [pc |-> "idle", statement |-> 1,
                 responses |-> Append(setup.responses,
                        [method |-> "POST", success |-> FALSE,
                         userCount |-> 0, testUser |-> ""])]
    /\ UNCHANGED database
    /\ UNCHANGED <<dbVars, qsVars, tkVars, wfVars, guVars, siVars, ptVars, acVars>>

\* lines 420-425: GET answers with the instructions
SeGet ==
    /\ setup.pc = "idle"
    /\ Len(setup.responses) < MaxPosts
    /\ setup' = [setup EXCEPT !.responses = Append(@,
                        [method |-> "GET", success |-> TRUE,
                         userCount |-> 0, testUser |-> ""])]
    /\ UNCHANGED database
    /\ UNCHANGED <<dbVars, qsVars, tkVars, wfVars, guVars, siVars, ptVars, acVars>>

NextSe ==
    \/ SePost
    \/ SeExecute
    \/ SeStatementThrows
    \/ SeGet

SeInit ==
    /\ database \in InitialDatabases
    /\ setup = IdleSetup

InitSe == SeInit /\ GuIdle /\ SiIdle /\ PtIdle /\ AcIdle /\ DbInit /\ QsIdle /\ TkInit /\ WfInit

SpecSe == InitSe /\ [][NextSe]_vars

(***************************************************************************)
(* Claims about the setup endpoint (checked under SpecSe).                  *)
(***************************************************************************)
\* a POST has completed successfully among the requests answered so far
PostSucceeded(st) ==
    \E i \in 1..Len(st.responses) :
        st.responses[i].method = "POST" /\ st.responses[i].success

InLog(call) == \E i \in 1..Len(run.calls) : run.calls[i] = call
CountInLog(callSet) == Cardinality({i \in 1..Len(run.calls) : run.calls[i] \in callSet})

\* the marks WfPhaseThrows leaves for an exception inside the try block
TryThrowMarks ==
    {"PatternRecognition throws", "ContextAnalysis throws", "TemplateMatch throws",
     "Implementation throws", "Documentation throws"}

PhaseThrew == CountInLog(TryThrowMarks \cup {"startSession throws"}) > 0
Returned == run.pc \in {"SessionComplete", "Failed"}

\* C1: no phase exception escapes. Whenever a phase from Init to
\* SessionComplete throws, the call does not reject: it returns a result with
\* success false, zero metrics, empty patternMatches, antiPatterns and
\* preventionMeasures, documentationCreated false and the fixed default
\* recommendations and next steps.
C1_NoPhaseExceptionEscapes ==
    /\ run.pc # "rejected"
    /\ PhaseThrew => run.pc \notin {"SessionComplete", "idle"}
    /\ (PhaseThrew /\ Returned) =>
        /\ run.result.success = FALSE
        /\ run.result.metrics = [efficiency |-> 0, qualityScore |-> 0, teamImpact |-> 0]
        /\ run.result.patternMatches = <<>>
        /\ run.result.antiPatterns = <<>>
        /\ run.result.preventionMeasures = <<>>
        /\ run.result.documentationCreated = FALSE
        /\ run.result.recommendations =
            <<"Retry with manual debugging approach", "Check system configuration">>
        /\ run.result.nextSteps = <<"Review error logs", "Validate input parameters">>

\* C2: a call that opened a metrics session with startSession invokes
\* completeSession for it exactly once before it returns: never twice at any
\* point, once when the call has returned, with success=true exactly when the
\* call ended in SessionComplete and success=false exactly when it ended in
\* Failed.
C2_SessionCompletedOnce ==
    InLog("startSession") =>
        /\ CountInLog({"completeSession success", "completeSession failure"}) <= 1
        /\ Returned =>
            /\ CountInLog({"completeSession success", "completeSession failure"}) = 1
            /\ InLog("completeSession success") <=> run.pc = "SessionComplete"
            /\ InLog("completeSession failure") <=> run.pc = "Failed"
            /\ run.result.success <=> run.pc = "SessionComplete"

\* C2 witness: a call that opened a session, failed in a phase and has returned
\* after completing the session with success=false.
C2_Witness ==
    /\ run.pc = "Failed"
    /\ InLog("startSession")
    /\ InLog("Documentation throws")
    /\ InLog("completeSession failure")

\* C7: a template-lookup miss is no failure. After getTemplate throws NotFound
\* the call goes on to the implementation phase; it reaches the catch block
\* only through another exception; and when it returns successfully
\* appliedTemplate is undefined, no template usage was recorded and the quality
\* score carries no template bonus.
C7_TemplateMissIsNotFailure ==
    InLog("getTemplate throws NotFound") =>
        /\ run.pc \in {"catch", "Failed"} => CountInLog(TryThrowMarks) > 0
        /\ run.pc # "TemplateMatch"
        /\ run.appliedTemplate = Undefined
        /\ ~InLog("recordTemplateUsage")
        /\ CountInLog(TryThrowMarks) = 0 /\ Returned =>
            /\ run.pc = "SessionComplete"
            /\ run.result.success = TRUE
            /\ run.result.appliedTemplate = Undefined
            /\ \E q \in 0..200 :
                /\ IsNearest(q, ClaimedSum(
                        [appliedTemplate |-> FALSE,
                         preventionMeasures |-> Len(run.result.preventionMeasures),
                         patternMatchConfidence |->
                            IF run.result.patternMatches = <<>> THEN 0
                            ELSE run.result.patternMatches[1].confidence,
                         contextComplexity |-> run.complexity]))
                /\ run.result.metrics.qualityScore = (IF q > 100 THEN 100 ELSE q)

\* C7 witness: a successful result after a NotFound, scored 50 + 5 + 13.5 + 10
\* without the template bonus.
C7_Witness ==
    /\ run.pc = "SessionComplete"
    /\ InLog("getTemplate throws NotFound")
    /\ run.result.success = TRUE
    /\ run.result.metrics.qualityScore = 79

\* C9: skipping a phase is no failure. For every combination of the six
\* flags, a call in which no phase throws never enters the catch block and
\* returns success=true; with pattern recognition skipped patternMatches and
\* antiPatterns are empty, and with aiAssisted off preventionMeasures is empty.
C9_SkipIsNotFailure ==
    ~PhaseThrew =>
        /\ run.pc \notin {"catch", "Failed", "rejected"}
        /\ run.pc = "SessionComplete" =>
            /\ run.result.success = TRUE
            /\ ~run.workflowConfig.patternRecognitionEnabled =>
                (run.result.patternMatches = <<>> /\ run.result.antiPatterns = <<>>)
            /\ ~run.workflowConfig.aiAssisted => run.result.preventionMeasures = <<>>

\* C9 witness: a call with all six flags off, every skippable phase skipped,
\* has returned successfully.
C9_Witness ==
    /\ run.pc = "SessionComplete"
    /\ run.result.success = TRUE
    /\ ~run.workflowConfig.patternRecognitionEnabled
    /\ ~run.workflowConfig.aiAssisted
    /\ ~run.workflowConfig.preventionRequired
    /\ ~run.workflowConfig.documentationRequired
    /\ ~run.workflowConfig.teamIntegration.sharePatterns
    /\ ~run.workflowConfig.teamIntegration.notifyOnCritical

\* C10: in every successful result documentationCreated is true exactly when
\* documentationRequired of the effective configuration (the global one
\* overridden by the options of the call, line 97) is enabled.
C10_DocumentationCreatedIffRequired ==
    run.pc = "SessionComplete" =>
        /\ run.result.success = TRUE
        /\ run.result.documentationCreated <=> run.workflowConfig.documentationRequired

\* C10 witness: the global flag is off, the options of the call turn it on, and
\* the successful result reports documentationCreated.
C10_Witness ==
    /\ run.pc = "SessionComplete"
    /\ ~config.documentationRequired
    /\ run.workflowConfig.documentationRequired
    /\ run.result.success = TRUE
    /\ run.result.documentationCreated = TRUE

NotifyCondition ==
    /\ run.workflowConfig.teamIntegration.notifyOnCritical
    /\ CriticalCount(run.antiPatterns) > 0

\* C11 as stated: in every run that has returned, notifyTeamOfCriticalIssues
\* was invoked if and only if notifyOnCritical is enabled and an anti-pattern
\* detected in the run is critical.
C11_NotifiedIffCritical ==
    Returned => (InLog("notifyTeamOfCriticalIssues") <=> NotifyCondition)

\* C11 amended: notifyTeamOfCriticalIssues is invoked, at most once, only if
\* notifyOnCritical is enabled and an anti-pattern detected in the run is
\* critical, hence never when pattern recognition was skipped; and in a run
\* that ends in SessionComplete it is invoked exactly when both hold.
C11_NotifiedIffCriticalOnSuccess ==
    /\ CountInLog({"notifyTeamOfCriticalIssues"}) <= 1
    /\ InLog("notifyTeamOfCriticalIssues") =>
        (NotifyCondition /\ run.workflowConfig.patternRecognitionEnabled)
    /\ run.pc = "SessionComplete" =>
        (InLog("notifyTeamOfCriticalIssues") <=> NotifyCondition)

\* C11 witness: a successful run notified the team of a critical anti-pattern.
C11_Witness ==
    /\ run.pc = "SessionComplete"
    /\ InLog("notifyTeamOfCriticalIssues")
    /\ \E i \in 1..Len(run.result.antiPatterns) :
            run.result.antiPatterns[i].severity = "critical"

\* the phase (1 Init .. 9 SessionComplete, 10 Failed) a logged call belongs to
PhaseRank(call) ==
    CASE call \in {"startSession", "startSession throws"} -> 1
      [] call \in {"analyzeError", "detectAntiPatterns", "PatternRecognition throws"} -> 2
      [] call \in {"analyzeContext", "ContextAnalysis throws"} -> 3
      [] call \in {"getTemplate", "recordTemplateUsage", "getTemplate throws NotFound",
                   "TemplateMatch throws"} -> 4
      [] call \in {"generateWorkflowPrompts", "generateImplementation",
                   "Implementation throws"} -> 5
      [] call \in {"addDocumentation", "shareWithTeam", "Documentation throws"} -> 7
      [] call = "notifyTeamOfCriticalIssues" -> 8
      [] call = "completeSession success" -> 9
      [] call = "completeSession failure" -> 10
      [] OTHER -> 0

\* the order of the program points of a call without an exception
PhaseSeq ==
    <<"idle", "PatternRecognition", "ContextAnalysis", "TemplateMatch", "Implementation",
      "QualityValidation", "Documentation", "TeamNotification", "CompleteSession",
      "Recommendations", "SessionComplete">>

PhaseSteps ==
    {<<PhaseSeq[i], PhaseSeq[i + 1]>> : i \in 1..(Len(PhaseSeq) - 1)}
    \cup {<<PhaseSeq[i], "catch">> : i \in 2..8}
    \cup {<<"catch", "Failed">>, <<"idle", "rejected">>}
    \cup {<<p, "idle">> : p \in {"SessionComplete", "Failed", "rejected"}}

\* C12: the phases of a run execute in the fixed order Init, PatternRecognition,
\* ContextAnalysis, TemplateMatch, Implementation, QualityValidation,
\* Documentation, TeamNotification, SessionComplete: the calls a run makes are
\* in that order, every one is a call of a known phase, control moves only
\* to the next program point, Failed is entered only from a phase before the
\* session was completed, and nothing is called after the session was marked
\* complete (successfully or not).
C12_PhaseOrder ==
    /\ [](\A i \in 1..Len(run.calls) :
            /\ PhaseRank(run.calls[i]) > 0
            /\ i < Len(run.calls) =>
                /\ PhaseRank(run.calls[i]) <= PhaseRank(run.calls[i + 1])
                /\ PhaseRank(run.calls[i]) < 9
                /\ (run.calls[i] \in TryThrowMarks \cup {"startSession throws"}) =>
                        run.calls[i + 1] = "completeSession failure")
    /\ [][run'.pc # run.pc => <<run.pc, run'.pc>> \in PhaseSteps]_vars

\* C12 witness: a successful run in which every phase made its calls.
C12_Witness ==
    /\ run.pc = "SessionComplete"
    /\ run.calls = <<"startSession", "analyzeError", "detectAntiPatterns", "analyzeContext",
                     "getTemplate", "recordTemplateUsage", "generateWorkflowPrompts",
                     "generateImplementation", "addDocumentation", "shareWithTeam",
                     "notifyTeamOfCriticalIssues", "completeSession success">>

(***************************************************************************)
(* lib/bugx/behavioral-parity-tests.ts: BehavioralParityTester             *)
(*                                                                         *)
(* Math.random() returns a float in [0, 1); the model draws it from the    *)
(* grid k / RandomGrid, k in 0 .. RandomGrid - 1, and computes             *)
(* Math.floor(r * 150) + 50 on it. A string is the sequence of its words.  *)
(***************************************************************************)
RandomGrid == 10

RandomDraws == 0 .. (RandomGrid - 1)

\* Math.floor(Math.random() * 150) + 50 for the draw k / RandomGrid
generateValue(k) == ((k * 150) \div RandomGrid) + 50

generateServerValue(k) == generateValue(k)

generateClientValue(k) == generateValue(k)

\* String.prototype.includes on sequences of words
IncludesWords(text, part) ==
    \E i \in 0 .. (Len(text) - Len(part)) :
        \A j \in 1 .. Len(part) : text[i + j] = part[j]

testRandomValueConsistency_Compares(ks, kc) ==
    [ testId |-> "RANDOM_VALUE_CONSISTENCY_001",
      passed |-> generateServerValue(ks) = generateClientValue(kc),
      serverOutput |-> <<"Active", "Users:", generateServerValue(ks)>>,
      clientOutput |-> <<"Active", "Users:", generateClientValue(kc)>>,
      mismatchDetails |->
          << <<"Random", "values", "generate", "different", "results",
               "on", "server", "vs", "client">> >>,
      recommendation |->
          <<"Use", "static", "initial", "values", "with", "client-side",
            "state", "management">> ]

testRandomValueConsistency(ks, kc) ==
    [ testId |-> "RANDOM_VALUE_CONSISTENCY_001",
      passed |-> FALSE,
      serverOutput |-> <<"Active", "Users:", generateServerValue(ks)>>,
      clientOutput |-> <<"Active", "Users:", generateClientValue(kc)>>,
      mismatchDetails |->
          << <<"Random", "values", "generate", "different", "results",
               "on", "server", "vs", "client">> >>,
      recommendation |->
          <<"Use", "static", "initial", "values", "with", "client-side",
            "state", "management">> ]

\* mismatchDetails is absent from the object literal: an empty list here
testUseEffectDependencies ==
    [ testId |-> "USEEFFECT_DEPS_001",
      passed |-> TRUE,
      serverOutput |-> <<"useEffect", "not", "executed", "on", "server">>,
      clientOutput |-> <<"useEffect", "executed", "on", "client">>,
      mismatchDetails |-> <<>>,
      recommendation |->
          <<"Ensure", "useEffect", "dependencies", "are", "stable", "and",
            "properly", "declared">> ]

runFullParityTestSuite(ks, kc) ==
    << testRandomValueConsistency(ks, kc), testUseEffectDependencies >>

PtRandomValueConsistency ==
    /\ \E ks \in RandomDraws, kc \in RandomDraws :
          parity' = [method |-> "testRandomValueConsistency",
                     results |-> <<testRandomValueConsistency(ks, kc)>>]
    /\ UNCHANGED <<dbVars, qsVars, tkVars, wfVars, guVars, siVars, seVars, acVars>>

PtUseEffectDependencies ==
    /\ parity' = [method |-> "testUseEffectDependencies",
                  results |-> <<testUseEffectDependencies>>]
    /\ UNCHANGED <<dbVars, qsVars, tkVars, wfVars, guVars, siVars, seVars, acVars>>

PtFullSuite ==
    /\ \E ks \in RandomDraws, kc \in RandomDraws :
          parity' = [method |-> "runFullParityTestSuite",
                     results |-> runFullParityTestSuite(ks, kc)]
    /\ UNCHANGED <<dbVars, qsVars, tkVars, wfVars, guVars, siVars, seVars, acVars>>

NextPt ==
    \/ PtRandomValueConsistency
    \/ PtUseEffectDependencies
    \/ PtFullSuite

InitPt ==
    PtIdle /\ GuIdle /\ SiIdle /\ SeIdle /\ AcIdle /\ DbInit /\ QsIdle /\ TkInit /\ WfInit

SpecPt == InitPt /\ [][NextPt]_vars

\* C16: the parity diagnostics report fixed outcomes whatever values are
\* generated: testRandomValueConsistency returns passed = false with a
\* recommendation that contains 'static initial values',
\* testUseEffectDependencies returns passed = true, and
\* runFullParityTestSuite returns exactly these two results in that order.
C16_FixedOutcomes ==
    /\ parity.method = "testRandomValueConsistency" =>
          /\ Len(parity.results) = 1
          /\ parity.results[1].passed = FALSE
          /\ IncludesWords(parity.results[1].recommendation,
                      <<"static", "initial", "values">>)
    /\ parity.method = "testUseEffectDependencies" =>
          /\ Len(parity.results) = 1
          /\ parity.results[1].passed = TRUE
    /\ parity.method = "runFullParityTestSuite" =>
          /\ Len(parity.results) = 2
          /\ parity.results[1].testId = "RANDOM_VALUE_CONSISTENCY_001"
          /\ parity.results[1].passed = FALSE
          /\ IncludesWords(parity.results[1].recommendation,
                      <<"static", "initial", "values">>)
          /\ parity.results[2] = testUseEffectDependencies
          /\ parity.results[2].passed = TRUE

\* the suite ran and both generated values happened to be equal
C16_Witness ==
    /\ parity.method = "runFullParityTestSuite"
    /\ parity.results[1].serverOutput = parity.results[1].clientOutput
    /\ parity.results[1].passed = FALSE

(***************************************************************************)
(* Claims about a hung initialization (lib/db/init.ts, getUser)            *)
(***************************************************************************)
\* the callers blocked at line 95 or 115 on attempt a
BlockedOn(a) == {c \in Callers : caller[c].pc = "awaiting" /\ caller[c].awaits = a}

\* C17: there is no timeout or cancellation. In every step in which the
\* in-flight attempt's initializeDatabase or seedDatabase call does not
\* settle, each caller of ensureDatabaseInitialized blocked on the attempt
\* (its initiator and the callers that arrived later) stays blocked and its
\* getUser call stays at line 11, no new attempt is started, and a caller
\* arriving in that step blocks on the same attempt. A call that never
\* settles therefore blocks them forever.
C17_HungInitBlocksForever ==
    /\ [](\A a \in InFlight : \A c \in BlockedOn(a) :
            c \in GuCallers => gu[c].pc = "idle")
    /\ [][\A a \in InFlight :
            attempt'[a] = attempt[a] =>
              /\ \A c \in BlockedOn(a) : caller'[c] = caller[c] /\ gu'[c] = gu[c]
              /\ nAttempts' = nAttempts
              /\ initializationPromise' = a
              /\ \A c \in Callers :
                    caller[c].pc = "idle" /\ caller'[c] # caller[c] =>
                        /\ caller'[c].pc = "awaiting"
                        /\ caller'[c].awaits = a
                        /\ caller'[c].role = "waiter"
         ]_vars

\* an attempt hangs in seedDatabase with every getUser caller blocked on it:
\* the initiator and a caller that arrived later
C17_Witness ==
    \E a \in Attempts :
        /\ attempt[a] = "seeding"
        /\ BlockedOn(a) = GuCallers
        /\ \E c \in GuCallers : caller[c].role = "initiator"
        /\ \E c \in GuCallers : caller[c].role = "waiter"

(***************************************************************************)
(* v1.4/index.ts: the BugXv14 facade over the orchestrator                 *)
(***************************************************************************)
\* lines 223-242: the caller passes on the WorkflowResult it got from
\* runCompleteWorkflow; the facade hands sessionResult.sessionId to
\* recordTeamKnowledgeFeedback as the entry id. The returned object is built
\* from reads only.
BugXv14_shareWithTeam(additionalNotes) ==
    /\ run.pc \in {"SessionComplete", "Failed"}
    /\ teamKnowledge' =
          recordTeamKnowledgeFeedback(teamKnowledge, run.result.sessionId,
                                      run.result.success, additionalNotes)
    /\ tkCall' = [op |-> "BugXv14.shareWithTeam",
                  entryId |-> run.result.sessionId,
                  comment |-> additionalNotes]
    /\ run' = [run EXCEPT !.pc = "Shared"]
    /\ UNCHANGED <<config, facade, workflows, dbVars, qsVars, appVars>>

\* lines 237-241: the facade returns
FaReturn ==
    /\ run.pc = "Shared"
    /\ run' = IdleRun
    /\ UNCHANGED <<config, teamKnowledge>>
    /\ UNCHANGED nonWfVars

NextFa ==
    \/ NextWf
    \/ \E additionalNotes \in {NoComment, "note"} :
          BugXv14_shareWithTeam(additionalNotes)
    \/ FaReturn

SpecFa == InitWf /\ [][NextFa]_vars

\* C18: BugXv14.shareWithTeam, called with the result of a workflow that
\* added a team-knowledge entry, records feedback on that entry: its helpful
\* tally grows by one when the result is a success and its notHelpful tally
\* otherwise, and additionalNotes, when given, is appended to its comments.
C18_FacadeRecordsFeedback ==
    [][(run.pc # "Shared" /\ run'.pc = "Shared" /\ InLog("shareWithTeam")) =>
          LET i == Len(teamKnowledge)
              before == teamKnowledge[i].teamFeedback
              after == teamKnowledge'[i].teamFeedback
          IN  /\ Len(teamKnowledge') = Len(teamKnowledge)
              /\ IF run.result.success
                 THEN after.helpful = before.helpful + 1
                 ELSE after.notHelpful = before.notHelpful + 1
              /\ tkCall'.comment # NoComment =>
                    after.comments = Append(before.comments, tkCall'.comment)
      ]_vars

(***************************************************************************)
(* Claims about the per-call options (integration.ts)                      *)
(***************************************************************************)
\* the calls a run has made on BugXMetricsCollector
MetricsCalls ==
    {i \in 1..Len(run.calls) :
        run.calls[i] \in {"startSession", "startSession throws", "addDocumentation",
                          "completeSession success", "completeSession failure"}}

\* C19: the per-call option metricsEnabled governs metrics collection for
\* the call, whatever the globally configured value. workflowConfig is
\* { ...this.config, ...options } (line 97), so its metricsEnabled is the
\* option's value whenever the option is given. With it false the run calls
\* none of startSession, addDocumentation and completeSession; with it true
\* the run calls startSession, and completeSession by the time it ends.
C19_PerCallMetricsOption ==
    run.pc # "idle" =>
        IF run.workflowConfig.metricsEnabled
        THEN /\ InLog("startSession") \/ InLog("startSession throws")
             /\ run.pc \in {"SessionComplete", "Failed"} =>
                    InLog("completeSession success") \/ InLog("completeSession failure")
        ELSE MetricsCalls = {}

(***************************************************************************)
(* Claims about a completed initialization (checked under SpecDb)          *)
(***************************************************************************)
\* the attempts whose initializeDatabase and seedDatabase both succeeded
Succeeded == {a \in Attempts : attempt[a] = "fulfilled"}

\* C20: once an attempt has succeeded, no later call of
\* ensureDatabaseInitialized invokes initializeDatabase or seedDatabase
\* again: the call returns at line 88 without awaiting anything, no attempt
\* is started or in flight from then on, and at most one attempt ever
\* succeeds.
C20_InitializedOnce ==
    /\ [](/\ Cardinality(Succeeded) <= 1
          /\ Succeeded # {} => (isInitialized /\ InFlight = {}))
    /\ [][Succeeded # {} =>
            /\ nAttempts' = nAttempts
            /\ attempt' = attempt
            /\ isInitialized'
            /\ \A c \in Callers :
                  CallStep(c) =>
                      caller'[c] = [pc |-> "returned", awaits |-> NoPromise,
                                    role |-> "fast"]
         ]_vars

\* the second attempt succeeded after the first failed, and a caller that
\* arrived afterwards returned on the fast path
C20_Witness ==
    /\ attempt[1] = "rejected"
    /\ attempt[2] = "fulfilled"
    /\ \E c \in Callers : caller[c] = [pc |-> "returned", awaits |-> NoPromise,
                                       role |-> "fast"]

(***************************************************************************)
(* Claims about how ensureDatabaseInitialized ends (checked under SpecDb)  *)
(***************************************************************************)
\* the callers that awaited attempt a and whose await is over
ResumedFrom(a) ==
    {c \in Callers : caller[c].pc \in {"returned", "threw"} /\ caller[c].awaits = a}

\* C21: ensureDatabaseInitialized returns normally only when isInitialized
\* is true, and every caller that awaited an attempt that failed (its
\* initiator and every waiter on the same promise) receives the error: none
\* of them returns normally from that attempt.
C21_ReturnsOnlyWhenInitialized ==
    /\ [](\A c \in Callers : caller[c].pc = "returned" => isInitialized)
    /\ [](\A a \in Attempts : \A c \in ResumedFrom(a) :
            /\ attempt[a] = "rejected" => caller[c].pc = "threw"
            /\ attempt[a] = "fulfilled" => caller[c].pc = "returned")
    /\ [][\A c \in Callers :
            (/\ caller[c].pc = "awaiting"
             /\ attempt[caller[c].awaits] = "rejected"
             /\ caller'[c] # caller[c]) =>
                caller'[c] = [caller[c] EXCEPT !.pc = "threw"]
         ]_vars

\* an attempt failed and both its initiator and a waiter on the same promise
\* received the error
C21_Witness ==
    \E a \in Attempts :
        /\ attempt[a] = "rejected"
        /\ \E c \in ResumedFrom(a) : caller[c].pc = "threw" /\ caller[c].role = "initiator"
        /\ \E c \in ResumedFrom(a) : caller[c].pc = "threw" /\ caller[c].role = "waiter"

\* C22: isInitialized becomes true only in the step in which seedDatabase of
\* an attempt succeeds, seedDatabase of an attempt starts only in the step in
\* which that attempt's initializeDatabase succeeds, and once isInitialized
\* is true it never becomes false again.
C22_FlagAfterInitThenSeed ==
    /\ [](isInitialized => Succeeded # {})
    /\ [][/\ (~isInitialized /\ isInitialized') =>
                \E a \in Attempts : attempt[a] = "seeding" /\ attempt'[a] = "fulfilled"
          /\ \A a \in Attempts :
                /\ (attempt[a] # "seeding" /\ attempt'[a] = "seeding") =>
                        attempt[a] = "initializing"
                /\ (attempt[a] # "fulfilled" /\ attempt'[a] = "fulfilled") =>
                        attempt[a] = "seeding" /\ isInitialized'
                /\ (attempt[a] # "initializing" /\ attempt'[a] = "initializing") =>
                        attempt[a] = "unused"
          /\ isInitialized => isInitialized'
         ]_vars

\* the flag is set, by an attempt whose initiator has returned from line 115
C22_Witness ==
    /\ isInitialized
    /\ \E a \in Succeeded : \E c \in ResumedFrom(a) :
            caller[c].pc = "returned" /\ caller[c].role = "initiator"

(***************************************************************************)
(* Claims about the credentials signIn accepts (checked under SpecSi)      *)
(***************************************************************************)
\* the user ids the credentials of the call in progress are verified for: the
\* demo user in fallback mode or after a database error, otherwise the rows
\* with the submitted email whose hash the password matches
VerifiedIds ==
    IF fallbackMode \/ si.lookup = "threw"
    THEN IF validateDemoCredentials(si.email, si.password) THEN {DemoUserId} ELSE {}
    ELSE {u.id : u \in {r \in users : /\ r.email = si.email
                                      /\ comparePasswords(si.password, r.passwordHash)}}

\* C23: signIn establishes a session only for verified credentials: the
\* session changes only in the step that ends the call, and only to a user
\* the credentials are verified for; a call whose credentials are not
\* verified ends by returning an error object, with the session as it was.
C23_SessionOnlyForVerified ==
    /\ [](si.pc = "establish" => VerifiedIds # {})
    /\ [](si.pc = "done" /\ VerifiedIds = {} => si.outcome.kind = "return")
    /\ [](si.pc = "done" /\ si.outcome.kind = "redirect" => session \in VerifiedIds)
    /\ [][/\ session' # session =>
                /\ si.pc # "done" /\ si'.pc = "done"
                /\ si'.outcome.kind # "return"
                /\ session' \in VerifiedIds'
          /\ (si.pc # "done" /\ si'.pc = "done" /\ VerifiedIds' = {}) =>
                /\ si'.outcome.kind = "return"
                /\ session' = session
         ]_vars

\* a call with a wrong password for an existing user has returned the error
\* object, after an earlier call established that user's session
C23_Witness ==
    /\ si.pc = "done"
    /\ si.lookup = "answered"
    /\ si.email = "amy@example.com"
    /\ VerifiedIds = {}
    /\ si.outcome.kind = "return"
    /\ session = 1

(***************************************************************************)
(* app/(login)/actions.ts: signUp, signOut, deleteAccount, with signIn and *)
(* getUser, over one users table, one activity log and one session cookie. *)
(* The requests are handled one after the other: a call starts when no    *)
(* other call is in progress.                                              *)
(***************************************************************************)
\* lib/auth/session: the token setSession(user) puts in the session cookie,
\* valid for one day
SessionToken(id) ==
    CASE id = 1 -> "amy"
      [] id = 2 -> "bob"
      [] id = 3 -> "carl"
      [] OTHER -> "demo"

\* the value of the session cookie
CookieOf(s) == IF s = NoSession THEN NoCookie ELSE SessionToken(s)

\* the tokens that verify, carry a numeric user id and are unexpired
ValidTokens == {"amy", "bob", "carl", "demo"}

\* the cookie values getUser is called with
GetUserTokens == CookieValues \cup ValidTokens

\* getUser (lines 8-51) that returns the row whatever its deletedAt
getUserOutcomes_IgnoresDeleted(token, rows) ==
    {ReturnNull} \cup
    IF token \in {NoCookie, ""} THEN {ReturnNull}
    ELSE UNION {
            IF sessionData.kind = "throws" THEN {Rejects("verifyToken")}
            ELSE IF \/ sessionData.kind = "null"
                    \/ ~sessionData.hasUser
                    \/ sessionData.idType # "number"
                    \/ sessionData.expires < Now
                 THEN {ReturnNull}
                 ELSE {ReturnNull} \cup
                      {ReturnUser(u) : u \in {r \in rows : r.id = sessionData.id}}
            : sessionData \in verifyToken(token)}

\* getUser (lines 8-51) as the set of ways a call with this cookie value can
\* end on these rows: null when line 11 throws (lines 12-15), when there is
\* no cookie value (line 18), when the checks of lines 23-33 fail, when the
\* query throws (lines 46-49) or finds no row that is not soft-deleted; a
\* rejection when verifyToken throws (line 22); otherwise the row.
getUserOutcomes(token, rows) ==
    {ReturnNull} \cup
    IF token \in {NoCookie, ""} THEN {ReturnNull}
    ELSE UNION {
            IF sessionData.kind = "throws" THEN {Rejects("verifyToken")}
            ELSE IF \/ sessionData.kind = "null"
                    \/ ~sessionData.hasUser
                    \/ sessionData.idType # "number"
                    \/ sessionData.expires < Now
                 THEN {ReturnNull}
                 ELSE {ReturnNull} \cup
                      {ReturnUser(u) : u \in {r \in rows : /\ r.id = sessionData.id
                                                           /\ r.deletedAt = NotDeleted}}
            : sessionData \in verifyToken(token)}

\* the id the users_id_seq gives the next row
NextUserId == 1 + Cardinality(users)

AcEnded(outcome) == [ac EXCEPT !.pc = "done"] @@ ("outcome" :> outcome)

AcError(error) == [kind |-> "return", error |-> error]

AcRejects(error) == [kind |-> "reject", error |-> error]

\* ---- getUser, called with any cookie value ----
AcGetUser(token) ==
    /\ ac.pc = "idle"
    /\ si.pc = "idle"
    /\ \E outcome \in getUserOutcomes(token, users) :
          ac' = [pc |-> "done", op |-> "getUser", token |-> token, outcome |-> outcome]
    /\ UNCHANGED <<users, siVars>>
    /\ UNCHANGED <<dbVars, qsVars, tkVars, wfVars, guVars, seVars, ptVars>>

\* ---- signUp (lines 143-184) ----
AcSignUp(email, password) ==
    /\ ac.pc = "idle"
    /\ si.pc = "idle"
    /\ Len(activityLogs) < MaxActivityLogs
    /\ ac' = [pc |-> "lookup", op |-> "signUp", email |-> email, password |-> password]
    /\ UNCHANGED <<users, siVars>>
    /\ UNCHANGED <<dbVars, qsVars, tkVars, wfVars, guVars, seVars, ptVars>>

\* lines 146-158: the query is not in a try; a row with the email ends the
\* call with the error object
AcSignUpLookup ==
    /\ ac.op = "signUp" /\ ac.pc = "lookup"
    /\ \/ ac' = IF \E u \in users : u.email = ac.email
                THEN AcEnded(AcError("Failed to create user"))
                ELSE [ac EXCEPT !.pc = "insert"]
       \/ ac' = AcEnded(AcRejects("DatabaseError"))
    /\ UNCHANGED <<users, siVars>>
    /\ UNCHANGED <<dbVars, qsVars, tkVars, wfVars, guVars, seVars, ptVars>>

\* lines 160-176: the insert returns the created row, or throws (always so
\* when the email has been taken meanwhile: users.email is UNIQUE)
AcSignUpInsert ==
    /\ ac.op = "signUp" /\ ac.pc = "insert"
    /\ \/ /\ ~\E u \in users : u.email = ac.email
          /\ LET createdUser == [id |-> NextUserId, email |-> ac.email,
                                 passwordHash |-> hashPassword(ac.password),
                                 deletedAt |-> NotDeleted]
             IN  /\ users' = users \cup {createdUser}
                 /\ ac' = [ac EXCEPT !.pc = "establish"] @@ ("user" :> createdUser)
       \/ /\ users' = users
          /\ ac' = AcEnded(AcRejects("DatabaseError"))
    /\ UNCHANGED siVars
    /\ UNCHANGED <<dbVars, qsVars, tkVars, wfVars, guVars, seVars, ptVars>>

\* lines 178-183: Promise.all starts logActivity and setSession together;
\* redirect is reached only when both promises are fulfilled
AcSignUpEstablish ==
    /\ ac.op = "signUp" /\ ac.pc = "establish"
    /\ \E sessionSet \in BOOLEAN, logWritten \in BOOLEAN :
        /\ session' = IF sessionSet THEN ac.user.id ELSE session
        /\ activityLogs' =
              IF logWritten
              THEN Append(activityLogs, [userId |-> ac.user.id, action |-> "SIGN_UP"])
              ELSE activityLogs
        /\ ac' = [ac EXCEPT !.pc = "done"] @@
              ("sessionSet" :> sessionSet) @@ ("logWritten" :> logWritten) @@
              ("outcome" :> IF sessionSet /\ logWritten
                            THEN Redirect("/")
                            ELSE IF sessionSet
                            THEN AcRejects("DatabaseError")
                            ELSE AcRejects("SessionError"))
    /\ UNCHANGED <<users, fallbackMode, si>>
    /\ UNCHANGED <<dbVars, qsVars, tkVars, wfVars, guVars, seVars, ptVars>>

\* ---- signOut (lines 186-209) ----
AcReturns == [kind |-> "return", error |-> "none"]

\* the session cookie a request carries: the one the server set last, or a
\* value of the client's that does not verify
RequestCookies == {CookieOf(session), "garbage"}

AcSignOut(cookie) ==
    /\ ac.pc = "idle"
    /\ si.pc = "idle"
    /\ Len(activityLogs) < MaxActivityLogs
    /\ ac' = [pc |-> IF fallbackMode THEN "clear" ELSE "lookup", op |-> "signOut",
              cookie |-> cookie,
              lookedUp |-> FALSE, lookupThrew |-> FALSE,
              logCalled |-> FALSE, logThrew |-> FALSE, cookieOps |-> <<>>]
    /\ UNCHANGED <<users, siVars>>
    /\ UNCHANGED <<dbVars, qsVars, tkVars, wfVars, guVars, seVars, ptVars>>

\* line 192 outside the try of lines 189-201: a rejection of getUser leaves
\* signOut
AcSignOutLookup_NoCatch ==
    /\ ac.op = "signOut" /\ ac.pc = "lookup"
    /\ \E outcome \in getUserOutcomes(ac.cookie, users) :
          ac' = IF outcome.kind = "return user"
                THEN [ac EXCEPT !.pc = "log", !.lookedUp = TRUE] @@ ("user" :> outcome.user)
                ELSE IF outcome.kind = "reject"
                THEN [ac EXCEPT !.pc = "done", !.lookedUp = TRUE, !.lookupThrew = TRUE] @@
                     ("outcome" :> AcRejects("verifyToken"))
                ELSE [ac EXCEPT !.pc = "clear", !.lookedUp = TRUE]
    /\ UNCHANGED <<users, siVars>>
    /\ UNCHANGED <<dbVars, qsVars, tkVars, wfVars, guVars, seVars, ptVars>>

\* lines 192-193: getUser with the request's session cookie; its rejection
\* is caught on line 199
AcSignOutLookup ==
    /\ ac.op = "signOut" /\ ac.pc = "lookup"
    /\ \E outcome \in getUserOutcomes(ac.cookie, users) :
          ac' = IF outcome.kind = "return user"
                THEN [ac EXCEPT !.pc = "log", !.lookedUp = TRUE] @@ ("user" :> outcome.user)
                ELSE [ac EXCEPT !.pc = "clear", !.lookedUp = TRUE,
                                !.lookupThrew = (outcome.kind = "reject")]
    /\ UNCHANGED <<users, siVars>>
    /\ UNCHANGED <<dbVars, qsVars, tkVars, wfVars, guVars, seVars, ptVars>>

\* line 194: the SIGN_OUT row is written, or the insert throws into the catch
AcSignOutLog ==
    /\ ac.op = "signOut" /\ ac.pc = "log"
    /\ \/ /\ activityLogs' = Append(activityLogs, [userId |-> ac.user.id, action |-> "SIGN_OUT"])
          /\ ac' = [ac EXCEPT !.pc = "clear", !.logCalled = TRUE]
       \/ /\ activityLogs' = activityLogs
          /\ ac' = [ac EXCEPT !.pc = "clear", !.logCalled = TRUE, !.logThrew = TRUE]
    /\ UNCHANGED <<users, fallbackMode, si, session>>
    /\ UNCHANGED <<dbVars, qsVars, tkVars, wfVars, guVars, seVars, ptVars>>

\* lines 204-208: the cookie is deleted, then set to '' with expires
\* new Date(0) and maxAge 0
AcSignOutClear ==
    /\ ac.op = "signOut" /\ ac.pc = "clear"
    /\ session' = NoSession
    /\ ac' = [ac EXCEPT !.pc = "done", !.cookieOps = <<"delete", "set empty expired">>] @@
             ("outcome" :> AcReturns)
    /\ UNCHANGED <<users, fallbackMode, si, activityLogs>>
    /\ UNCHANGED <<dbVars, qsVars, tkVars, wfVars, guVars, seVars, ptVars>>

\* ---- deleteAccount (lines 274-298) ----
\* validatedActionWithUser (lib/auth/middleware): getUser with the request's
\* cookie; without a user the action is not run and the call fails
AcDeleteAccount(password) ==
    /\ ac.pc = "idle"
    /\ si.pc = "idle"
    /\ Len(activityLogs) < MaxActivityLogs
    /\ \E outcome \in getUserOutcomes(CookieOf(session), users) :
          ac' = IF outcome.kind = "return user"
                THEN [pc |-> "check", op |-> "deleteAccount", password |-> password,
                      user |-> outcome.user]
                ELSE [pc |-> "done", op |-> "deleteAccount", password |-> password,
                      outcome |-> AcRejects("User is not authenticated")]
    /\ UNCHANGED <<users, siVars>>
    /\ UNCHANGED <<dbVars, qsVars, tkVars, wfVars, guVars, seVars, ptVars>>

\* lines 279-285
AcDeleteCheck ==
    /\ ac.op = "deleteAccount" /\ ac.pc = "check"
    /\ ac' = IF comparePasswords(ac.password, ac.user.passwordHash)
             THEN [ac EXCEPT !.pc = "writes"]
             ELSE AcEnded(AcError("Incorrect password"))
    /\ UNCHANGED <<users, siVars>>
    /\ UNCHANGED <<dbVars, qsVars, tkVars, wfVars, guVars, seVars, ptVars>>

\* lines 287-293: Promise.all starts the update of deletedAt and logActivity
\* together; each may throw, and either failure rejects the call
AcDeleteWrites ==
    /\ ac.op = "deleteAccount" /\ ac.pc = "writes"
    /\ \E updated \in BOOLEAN, logWritten \in BOOLEAN :
        /\ users' = IF updated
                    THEN {IF u.id = ac.user.id THEN [u EXCEPT !.deletedAt = Now] ELSE u :
                            u \in users}
                    ELSE users
        /\ activityLogs' =
              IF logWritten
              THEN Append(activityLogs, [userId |-> ac.user.id, action |-> "DELETE_ACCOUNT"])
              ELSE activityLogs
        /\ ac' = IF updated /\ logWritten
                 THEN [ac EXCEPT !.pc = "cookie"]
                 ELSE AcEnded(AcRejects("DatabaseError"))
    /\ UNCHANGED <<fallbackMode, si, session>>
    /\ UNCHANGED <<dbVars, qsVars, tkVars, wfVars, guVars, seVars, ptVars>>

\* lines 295-296
AcDeleteCookie ==
    /\ ac.op = "deleteAccount" /\ ac.pc = "cookie"
    /\ session' = NoSession
    /\ ac' = AcEnded(Redirect("/sign-in"))
    /\ UNCHANGED <<users, fallbackMode, si, activityLogs>>
    /\ UNCHANGED <<dbVars, qsVars, tkVars, wfVars, guVars, seVars, ptVars>>

\* the call is over
AcReturn ==
    /\ ac.pc = "done"
    /\ ac' = IdleAccount
    /\ UNCHANGED <<users, siVars>>
    /\ UNCHANGED <<dbVars, qsVars, tkVars, wfVars, guVars, seVars, ptVars>>

NextAc ==
    \/ NextSi
    \/ \E token \in GetUserTokens : AcGetUser(token)
    \/ \E email \in Emails, password \in Passwords : AcSignUp(email, password)
    \/ AcSignUpLookup
    \/ AcSignUpInsert
    \/ AcSignUpEstablish
    \/ \E cookie \in RequestCookies : AcSignOut(cookie)
    \/ AcSignOutLookup
    \/ AcSignOutLog
    \/ AcSignOutClear
    \/ \E password \in Passwords : AcDeleteAccount(password)
    \/ AcDeleteCheck
    \/ AcDeleteWrites
    \/ AcDeleteCookie
    \/ AcReturn

SpecAc == InitSi /\ [][NextAc]_vars

(***************************************************************************)
(* Claims about signIn, signUp, signOut and deleteAccount (under SpecAc)   *)
(***************************************************************************)
\* the call has ended in the Promise.all of lines 130-133 or 178-181
PastWrites(call) == call.pc = "done" /\ "sessionSet" \in DOMAIN call

\* C24: after a successful credential check signIn, and signUp after
\* creating the user, issue the session-set and the activity-log write
\* together, whatever the other does, and redirect to '/' only after both
\* have completed successfully; if either write fails there is no redirect.
C24_RedirectAfterBothWrites ==
    /\ [](\A call \in {si, ac} :
            PastWrites(call) =>
                IF call.sessionSet /\ call.logWritten
                THEN call.outcome = Redirect("/")
                ELSE call.outcome.kind = "reject")
    /\ [](\A call \in {si, ac} :
            (call.pc = "done" /\ call.outcome = Redirect("/")) =>
                PastWrites(call) /\ call.sessionSet /\ call.logWritten)
    /\ [][/\ (si.pc = "establish" /\ si'.pc = "done") =>
                LET user == CHOOSE u \in si.foundUser : TRUE IN
                /\ session' = IF si'.sessionSet THEN user.id ELSE session
                /\ si'.logWritten <=>
                      activityLogs' = Append(activityLogs,
                                             [userId |-> user.id, action |-> "SIGN_IN"])
                /\ ~si'.logWritten <=> activityLogs' = activityLogs
          /\ (ac.pc = "establish" /\ ac'.pc = "done") =>
                /\ session' = IF ac'.sessionSet THEN ac.user.id ELSE session
                /\ ac'.logWritten <=>
                      activityLogs' = Append(activityLogs,
                                             [userId |-> ac.user.id, action |-> "SIGN_UP"])
                /\ ~ac'.logWritten <=> activityLogs' = activityLogs
         ]_vars

\* signUp created a user, set the session, wrote the SIGN_UP row and
\* redirected
C24_Witness ==
    /\ ac.pc = "done" /\ ac.op = "signUp"
    /\ ac.outcome = Redirect("/")
    /\ session = ac.user.id
    /\ activityLogs = <<[userId |-> ac.user.id, action |-> "SIGN_UP"]>>

\* the ids of the soft-deleted rows
SoftDeleted(rows) == {u.id : u \in {r \in rows : r.deletedAt # NotDeleted}}

\* C25: deleteAccount soft-deletes only on a correct password, and a deleted
\* account can no longer authenticate. A soft-deleted row stays soft-deleted;
\* when deleteAccount succeeds the user's row is soft-deleted; a finished
\* getUser call that presented a valid, unexpired token of a soft-deleted
\* user has returned null; a row is soft-deleted only by deleteAccount past a
\* matching password; and deleteAccount with a wrong password returns the
\* error object and leaves the rows, the activity log and the session cookie
\* as they were.
C25_DeletedCannotAuthenticate ==
    /\ [](/\ ac.op = "getUser" /\ ac.pc = "done"
          /\ ac.token \in ValidTokens
          /\ Payload(ac.token).id \in SoftDeleted(users)
          => ac.outcome = ReturnNull)
    /\ [][/\ SoftDeleted(users) \subseteq SoftDeleted(users')
          /\ (/\ ac'.op = "deleteAccount" /\ ac.pc # "done" /\ ac'.pc = "done"
              /\ ac'.outcome = Redirect("/sign-in")) =>
                /\ ac.user.id \in SoftDeleted(users')
                /\ session' = NoSession
          /\ SoftDeleted(users') # SoftDeleted(users) =>
                /\ ac.op = "deleteAccount"
                /\ comparePasswords(ac.password, ac.user.passwordHash)
                /\ SoftDeleted(users') = SoftDeleted(users) \cup {ac.user.id}
          /\ (/\ ac.op = "deleteAccount" /\ ac.pc = "check"
              /\ ~comparePasswords(ac.password, ac.user.passwordHash)
              /\ ac' # ac) =>
                /\ ac'.pc = "done"
                /\ ac'.outcome = AcError("Incorrect password")
                /\ users' = users
                /\ activityLogs' = activityLogs
                /\ session' = session
         ]_vars

\* deleteAccount succeeded for user 1 and a later getUser call with that
\* user's valid token returned null
C25_Witness ==
    /\ ac.op = "getUser" /\ ac.pc = "done"
    /\ ac.token = "amy"
    /\ 1 \in SoftDeleted(users)
    /\ \E i \in 1..Len(activityLogs) :
            activityLogs[i] = [userId |-> 1, action |-> "DELETE_ACCOUNT"]
    /\ ac.outcome = ReturnNull

\* C26: signOut always ends with the session cookie cleared, deleted and
\* then overwritten with an empty, already-expired value, whether or not the
\* user lookup or the SIGN_OUT activity-log write fails; in fallback mode it
\* performs no user lookup and writes no activity log.
C26_SignOutClearsCookie ==
    /\ [](ac.op = "signOut" /\ ac.pc = "done" =>
            /\ ac.outcome = AcReturns
            /\ ac.cookieOps = <<"delete", "set empty expired">>
            /\ session = NoSession
            /\ fallbackMode => ~ac.lookedUp /\ ~ac.logCalled)
    /\ [][(ac.op = "signOut" /\ ac' # ac) =>
            /\ ac'.op = "signOut" => ac'.pc \in {"log", "clear", "done"}
            /\ ac.pc # "clear" => ac'.pc # "done"
            /\ fallbackMode => activityLogs' = activityLogs
            /\ ac.pc # "log" => activityLogs' = activityLogs
         ]_vars

\* signOut ended with the cookie cleared although getUser rejected, with a
\* session set before
C26_Witness ==
    /\ ac.op = "signOut" /\ ac.pc = "done"
    /\ ac.lookedUp /\ ac.lookupThrew /\ ~ac.logCalled
    /\ activityLogs # <<>>
    /\ ac.cookieOps = <<"delete", "set empty expired">>
    /\ session = NoSession

(***************************************************************************)
(* v1.4/index.ts: BugXv14.configure (lines 268-276)                         *)
(***************************************************************************)
\* the arguments given to BugXv14.configure: values for any of three flags,
\* with or without a teamIntegration object
FacadePatches ==
    LET flagParts ==
            UNION {[K -> BOOLEAN] :
                     K \in SUBSET {"metricsEnabled", "documentationRequired",
                                   "preventionRequired"}}
    IN  flagParts \cup
        {f @@ ("teamIntegration" :> ti) : f \in flagParts, ti \in TeamIntegrations}

\* line 270 hands the argument to BugXIntegrationSystem.configure, which
\* replaces `config` by { ...this.config, ...newConfig } (integration.ts line
\* 82); lines 272-275 return { ...DEFAULT_CONFIG, ...config }, built from the
\* exported object and the argument. Neither spread writes to its operands.
BugXv14_configure(newConfig) ==
    /\ run.pc = "idle"
    /\ config' = Merge(config, newConfig)
    /\ facade' = [facade EXCEPT
                    !.returned = [configured |-> TRUE,
                                  config |-> Merge(facade.DEFAULT_CONFIG, newConfig)]]
    /\ UNCHANGED <<run, teamKnowledge, workflows, dbVars, qsVars, tkCall, appVars>>

NextCf ==
    \E newConfig \in FacadePatches : BugXv14_configure(newConfig)

SpecCf == InitWf /\ [][NextCf]_vars

\* C27: once a call of BugXv14.configure has returned, the config of the
\* object returned by the latest call equals BugXIntegrationSystem.config, the
\* configuration workflows started from then on read; and the exported
\* DEFAULT_CONFIG object still holds the values of its literal.
C27_ReturnedConfigIsCurrent ==
    /\ facade.returned.configured => facade.returned.config = config
    /\ facade.DEFAULT_CONFIG = DEFAULT_CONFIG

(***************************************************************************)
(* integration.ts: several callers running runCompleteWorkflow             *)
(* The body of runCompleteWorkflow (lines 84-345) has no await: within one  *)
(* process a call runs to its return before another call starts. Here the  *)
(* calls of different callers, and configure, may take turns between the    *)
(* phases, which includes every order the runtime can produce. A phase is   *)
(* one step: shareWithTeam builds the entry and pushes it without yielding. *)
(* Only what bears on the team knowledge is kept of a call: its position,   *)
(* its workflowConfig and the number of entries it has pushed. configure is *)
(* called with documentationRequired only.                                  *)
(***************************************************************************)
\* the `options` argument: documentationRequired given or not, with or
\* without a teamIntegration object
ShareOptions ==
    LET flagParts == UNION {[K -> BOOLEAN] : K \in SUBSET {"documentationRequired"}}
    IN  flagParts \cup
        {f @@ ("teamIntegration" :> ti) :
            f \in flagParts, ti \in {t \in TeamIntegrations : t.notifyOnCritical}}

\* lines 94-222: workflowConfig is fixed on line 97; phases 1 to 6 do not
\* touch the team knowledge. A call that ends here, startSession throwing or
\* a phase leading to the catch block, leaves every variable as it was.
CwStart(c, options) ==
    /\ workflows[c].pc = "idle"
    /\ Len(teamKnowledge) < MaxShared
    /\ workflows' = [workflows EXCEPT
                        ![c] = [pc |-> "Documentation",
                                workflowConfig |-> Merge(config, options),
                                pushed |-> 0]]
    /\ UNCHANGED <<config, run, facade, teamKnowledge>>
    /\ UNCHANGED <<dbVars, qsVars, tkCall, appVars>>

\* lines 223-257, Phase 7: generateDocumentation or addDocumentation may
\* throw before the share, and the call returns from the catch block;
\* otherwise shareWithTeam is called when
\* workflowConfig.teamIntegration.sharePatterns is set (lines 244-253)
CwDocumentation(c) ==
    LET call == workflows[c]
    IN  /\ call.pc = "Documentation"
        /\ IF call.workflowConfig.documentationRequired
           THEN \/ /\ workflows' = [workflows EXCEPT ![c] = IdleCall]
                   /\ UNCHANGED teamKnowledge
                \/ IF call.workflowConfig.teamIntegration.sharePatterns
                   THEN /\ teamKnowledge' =
                              shareWithTeam(teamKnowledge,
                                  [title |-> Undefined,
                                   errorSignature |-> {"invalid"},
                                   solution |-> "steps",
                                   prevention |-> <<>>,
                                   sharedBy |-> c])
                        /\ workflows' = [workflows EXCEPT
                                           ![c].pc = "TeamNotification",
                                           ![c].pushed = @ + 1]
                   ELSE /\ workflows' = [workflows EXCEPT ![c].pc = "TeamNotification"]
                        /\ UNCHANGED teamKnowledge
           ELSE /\ workflows' = [workflows EXCEPT ![c].pc = "TeamNotification"]
                /\ UNCHANGED teamKnowledge
        /\ UNCHANGED <<config, run, facade>>
        /\ UNCHANGED <<dbVars, qsVars, tkCall, appVars>>

\* lines 259-344: phases 8 to 10 and the return, or the catch block and its
\* return; the caller may call again
CwFinish(c) ==
    /\ workflows[c].pc = "TeamNotification"
    /\ workflows' = [workflows EXCEPT ![c] = IdleCall]
    /\ UNCHANGED <<config, run, facade, teamKnowledge>>
    /\ UNCHANGED <<dbVars, qsVars, tkCall, appVars>>

NextCw ==
    \/ \E newConfig \in {p \in ConfigPatches : "documentationRequired" \in DOMAIN p} :
          configure(newConfig)
    \/ \E c \in WfCallers, options \in ShareOptions : CwStart(c, options)
    \/ \E c \in WfCallers : CwDocumentation(c)
    \/ \E c \in WfCallers : CwFinish(c)

SpecCw == InitWf /\ [][NextCw]_vars

\* the call has both flags of the share step set in its workflowConfig
SharesPatterns(call) ==
    /\ call.workflowConfig.documentationRequired
    /\ call.workflowConfig.teamIntegration.sharePatterns

\* C28: however the workflow calls of several callers take turns, every step
\* leaves the entries already on the team knowledge list in place, unchanged
\* and in the same order; a call that passes phase 7 with documentationRequired
\* and teamIntegration.sharePatterns set in its workflowConfig appends exactly
\* one entry, with effectiveness 85, usageCount 0 and empty feedback; a call
\* with either flag unset adds none; nothing else changes the list, and no two
\* positions of the list hold the same entry.
C28_AppendOnlyOnePerShare ==
    /\ [](/\ \A i, j \in 1..Len(teamKnowledge) :
                i # j => teamKnowledge[i] # teamKnowledge[j]
          /\ \A c \in WfCallers :
                /\ workflows[c].pushed \in {0, 1}
                /\ workflows[c].pushed = 1 => SharesPatterns(workflows[c])
                /\ workflows[c].pc = "TeamNotification" =>
                      (workflows[c].pushed = 1 <=> SharesPatterns(workflows[c])))
    /\ [][/\ Len(teamKnowledge') >= Len(teamKnowledge)
          /\ SubSeq(teamKnowledge', 1, Len(teamKnowledge)) = teamKnowledge
          /\ \A c \in WfCallers :
                (workflows[c].pc = "Documentation"
                    /\ workflows'[c].pc = "TeamNotification") =>
                  IF SharesPatterns(workflows[c])
                  THEN /\ Len(teamKnowledge') = Len(teamKnowledge) + 1
                       /\ LET e == teamKnowledge'[Len(teamKnowledge')]
                          IN  /\ e.sharedBy = c
                              /\ e.effectiveness = 85
                              /\ e.usageCount = 0
                              /\ e.teamFeedback =
                                    [helpful |-> 0, notHelpful |-> 0, comments |-> <<>>]
                  ELSE teamKnowledge' = teamKnowledge
          /\ teamKnowledge' # teamKnowledge =>
                \E c \in WfCallers :
                    /\ workflows[c].pc = "Documentation"
                    /\ workflows'[c].pc = "TeamNotification"
                    /\ SharesPatterns(workflows[c])
         ]_vars

\* two calls in progress at once have both passed phase 7, the one that
\* started second having pushed first, onto a list that held an entry
C28_Witness ==
    /\ \A c \in {1, 2} :
          workflows[c].pc = "TeamNotification" /\ workflows[c].pushed = 1
    /\ Len(teamKnowledge) = 3
    /\ teamKnowledge[2].sharedBy = 2
    /\ teamKnowledge[3].sharedBy = 1

====
